---- MODULE Spec2Model ----
(***************************************************************************)
(* Model of the WindowManager facade (src/src/core/window_manager.cpp):    *)
(* the focus coordinator with its sliding-log rate limiter and bounded     *)
(* focus history, and the time-bounded window / workspace caches.          *)
(*                                                                         *)
(* Time is the reading of std::chrono::steady_clock in ticks; there are    *)
(* TicksPerSecond ticks in a second.  The Enumerator is the injected       *)
(* platform collaborator: every call into it is a choice among the         *)
(* results the interface allows (a value, or one of the exception classes  *)
(* of exceptions.hpp).                                                     *)
(***************************************************************************)
EXTENDS Integers, Sequences, FiniteSets, TLC

VARIABLES
    clock,               \* steady_clock::now(), in ticks
    enumerator,          \* the WindowEnumerator injected at construction
    focusRequestTimes,   \* focusRequestTimes_ (guarded by rateLimitMutex_)
    focusHistory,        \* focusHistory_ (guarded by focusHistoryMutex_)
    pc,                  \* position of each caller inside its Facade call
    frame,               \* locals of each caller's focusWindowByHandle call
    calls,               \* number of Facade calls started so far
    acceptTimes,         \* history variable: clock readings of accepted checkRateLimit calls
    recordTimes,         \* history variable: every clock reading recordFocusRequest pushed
    appendLog,           \* history variable: the operations given to addToFocusHistory
                         \* since the history was last empty, in the order given
    ret,                 \* outcome of the Facade call that returned last
    cachedWindows,       \* cachedWindows_ (guarded by cacheMutex_)
    cacheValid,          \* cacheValid_
    lastUpdate,          \* lastUpdate_
    cachingEnabled,      \* cachingEnabled_
    cacheMutex,          \* holder of cacheMutex_, 0 when free
    cachedWorkspaces,    \* cachedWorkspaces_ (guarded by workspaceCacheMutex_)
    workspaceCacheValid, \* workspaceCacheValid_
    lastWorkspaceUpdate, \* lastWorkspaceUpdate_
    workspaceCacheMutex, \* holder of workspaceCacheMutex_, 0 when free
    cframe,              \* locals of each caller's cache call
    sysWindows,          \* the windows the platform has now
    sysWorkspaces,       \* the workspaces the platform has now
    workspaceSupported,  \* what the Enumerator's isWorkspaceSupported() answers
    filterCache,         \* WindowFilterImpl::cache_ of filter_: cache key -> FilterResult
    filterCachingEnabled,\* WindowFilterImpl::cachingEnabled_ of filter_
    caught,              \* the exception a caller of the library has caught
    assessed             \* what ErrorRecovery has answered about it

focusVars ==
    <<focusRequestTimes, focusHistory, frame, calls, acceptTimes, recordTimes, appendLog>>
cacheVars == <<cachedWindows, cacheValid, lastUpdate, cachingEnabled, cacheMutex,
               cachedWorkspaces, workspaceCacheValid, lastWorkspaceUpdate,
               workspaceCacheMutex, cframe>>
platformVars == <<enumerator, sysWindows, sysWorkspaces, workspaceSupported>>
filterVars == <<filterCache, filterCachingEnabled>>
errorVars == <<caught, assessed>>

----------------------------------------------------------------------------
(* Bounds of the model *)

TicksPerSecond == 1
MaxClock == 2
MaxRaceClock == 1
MaxFocusCalls == 1
MaxRateCalls == 11
MaxSearchCalls == 2
MaxTotalCount == 2
MaxTextLen == 2
MaxHistoryCalls == 3
MaxLockCalls == 1

(* Program constants (window_manager.hpp) *)

MAX_FOCUS_REQUESTS_PER_SECOND == 10
RATE_LIMIT_WINDOW == 1
MAX_FOCUS_HISTORY_SIZE == 1000
MAX_CACHE_SIZE == 10000
CACHE_VALIDITY_DURATION == 5
WORKSPACE_CACHE_VALIDITY_DURATION == 10
SORT_THRESHOLD == 100
FILTER_SORT_LIMIT == 1000

Callers == {1, 2}
SingleCaller == {1}

None == "none"

----------------------------------------------------------------------------
(* Exceptions (exceptions.hpp).  Every class of the taxonomy derives from  *)
(* WindowManagerException, which derives from std::exception.              *)

ErrorKinds ==
    {"PlatformNotSupported", "PermissionDenied", "WindowEnumeration",
     "WindowOperation", "PlatformApi", "Filter", "Configuration",
     "Workspace", "InvalidHandle", "WorkspaceSwitch", "Focus",
     "PerformanceWarning"}

\* a catch (const WindowManagerException&) that matches nothing thrown
IsWindowManagerException_unmatched(e) == FALSE

IsWindowManagerException(e) == e \in ErrorKinds

\* a catch (const std::exception&) that misses the taxonomy's classes
IsStdException_foreign(e) == e = "std::exception"

IsStdException(e) == IsWindowManagerException(e) \/ e = "std::exception"

\* e.what(): each class prefixes its own text, so the kind identifies the message
What(e) == e

----------------------------------------------------------------------------
(* The Enumerator.  "Steady" is an implementation that never fails and on    *)
(* which every handle stays valid, on the current workspace and focusable;  *)
(* "Absent" is the same after the windows have been closed: no handle is    *)
(* valid any more;                                                          *)
(* "Shifting" is the same on a desktop whose windows are shown, hidden,     *)
(* closed and opened; "Detecting" is one that lists the workspaces it finds *)
(* among the windows, as the Win32 and Cocoa backends do;                   *)
(* "Native" is one whose enumerations fail the way the three backends of    *)
(* src/platform do, with a WindowEnumerationException or a                  *)
(* WindowOperationException; "Platform" is an arbitrary implementation of   *)
(* the interface, failing with any class of the taxonomy.                   *)

Enumerators == {"Steady", "Absent", "Shifting", "Detecting", "Native", "Platform"}

EnumerationErrors ==
    CASE enumerator \in {"Steady", "Absent", "Shifting", "Detecting"} -> {}
      [] enumerator = "Native" -> {"WindowEnumeration", "WindowOperation"}
      [] OTHER -> ErrorKinds

Handles == {"", "w1"}

\* outcome of a call into the Enumerator: a value, or an exception
Returns(v) == [kind |-> "return", val |-> v, err |-> ""]
Throws(e, v) == [kind |-> "throw", val |-> v, err |-> e]
BoolThrows == {Throws(e, FALSE) : e \in ErrorKinds}
\* std::optional<T>: empty, or holding one value
Nullopt == <<>>
Some(v) == <<v>>
InfoThrows == {Throws(e, Nullopt) : e \in ErrorKinds}

WindowOnCurrent == [isOnCurrentWorkspace |-> TRUE, workspaceId |-> "ws1"]
WindowOnOther == [isOnCurrentWorkspace |-> FALSE, workspaceId |-> "ws2"]
WindowUnassigned == [isOnCurrentWorkspace |-> FALSE, workspaceId |-> ""]

\* isWindowValid run through std::async: a value, an exception stored in the
\* future, an answer that comes only after the timeout ("timeout"), or no
\* answer at all ("hang")
IsWindowValidOutcomes ==
    IF enumerator = "Absent" THEN {Returns(FALSE)}
    ELSE IF enumerator # "Platform" THEN {Returns(TRUE)}
    ELSE {Returns(TRUE), Returns(FALSE), [kind |-> "timeout", val |-> FALSE, err |-> ""],
          [kind |-> "hang", val |-> FALSE, err |-> ""]}
         \cup BoolThrows

\* wait_for(timeout) returned future_status::timeout
TimedOut(outcome) == outcome.kind \in {"timeout", "hang"}

GetWindowInfoOutcomes ==
    IF enumerator # "Platform" THEN {Returns(Some(WindowOnCurrent))}
    ELSE {Returns(Some(WindowOnCurrent)), Returns(Some(WindowOnOther)),
          Returns(Some(WindowUnassigned)), Returns(Nullopt)} \cup InfoThrows

BoolOutcomes ==
    IF enumerator # "Platform" THEN {Returns(TRUE)}
    ELSE {Returns(TRUE), Returns(FALSE)} \cup BoolThrows

CanSwitchOutcomes == {Returns(TRUE), Returns(FALSE)}

----------------------------------------------------------------------------
(* FocusRequest / FocusOperation *)

\* requestId = handle + "_" + to_string(microseconds since epoch)
RequestId(handle, timestamp) == <<handle, timestamp>>

NewRequest(handle, allowWorkspaceSwitch, now) ==
    [targetHandle |-> handle,
     timestamp |-> now,
     requestId |-> RequestId(handle, now),
     crossWorkspace |-> allowWorkspaceSwitch,
     sourceWorkspace |-> "",
     targetWorkspace |-> ""]

NewOperation(request) ==
    [request |-> request,
     status |-> "PENDING",
     workspaceSwitched |-> FALSE,
     errorMessage |-> ""]

setStatus(op, newStatus) == [op EXCEPT !.status = newStatus]

complete(op) == [op EXCEPT !.status = "COMPLETED"]

\* a fail() that sets the status and drops the message
fail_status_only(op, error) == [op EXCEPT !.status = "FAILED"]

\* a fail() that records the message and leaves the status alone
fail_message_only(op, error) == [op EXCEPT !.errorMessage = error]

fail(op, error) == [op EXCEPT !.status = "FAILED", !.errorMessage = error]

\* a markWorkspaceSwitched() that does not set the flag
markWorkspaceSwitched_noop(op) == op

markWorkspaceSwitched(op) == [op EXCEPT !.workspaceSwitched = TRUE]

TerminalStatuses == {"COMPLETED", "FAILED", "CANCELLED"}

\* enum class FocusStatus: the position of a status in the life of an
\* operation, the terminal statuses sharing the last one
StatusRank(status) ==
    CASE status = "PENDING" -> 0
      [] status = "VALIDATING" -> 1
      [] status = "SWITCHING_WORKSPACE" -> 2
      [] status = "FOCUSING" -> 3
      [] status = "RESTORING" -> 4
      [] status \in TerminalStatuses -> 5

----------------------------------------------------------------------------
(* Rate limiter *)

\* a pruning that also drops the entries exactly RATE_LIMIT_WINDOW old
PruneRequestTimes_strict(times, now) ==
    SelectSeq(times, LAMBDA time : time > now - RATE_LIMIT_WINDOW * TicksPerSecond)

\* the entries checkRateLimit keeps: remove_if(time < now - RATE_LIMIT_WINDOW)
PruneRequestTimes(times, now) ==
    SelectSeq(times, LAMBDA time : ~(time < now - RATE_LIMIT_WINDOW * TicksPerSecond))

\* a limiter that lets one request more through
UnderRateLimit_inclusive(times) == Len(times) <= MAX_FOCUS_REQUESTS_PER_SECOND

\* checkRateLimit's result on the pruned log
UnderRateLimit(times) == Len(times) < MAX_FOCUS_REQUESTS_PER_SECOND

\* an addToFocusHistory that drops the newest operations of a full history
AppendToHistory_evictsNewest(history, op) ==
    LET h == Append(history, op)
    IN IF Len(h) > MAX_FOCUS_HISTORY_SIZE THEN SubSeq(h, 1, MAX_FOCUS_HISTORY_SIZE) ELSE h

\* history eviction of addToFocusHistory
AppendToHistory(history, op) ==
    LET h == Append(history, op)
    IN IF Len(h) > MAX_FOCUS_HISTORY_SIZE
       THEN SubSeq(h, Len(h) - MAX_FOCUS_HISTORY_SIZE + 1, Len(h))
       ELSE h

----------------------------------------------------------------------------
(* Locals of a caller *)

IdleFrame ==
    [handle |-> "", allow |-> FALSE, op |-> NewOperation(NewRequest("", FALSE, 0)),
     windowInfo |-> Nullopt,
     success |-> FALSE, result |-> FALSE,
     \* history variables of the call
     accepted |-> FALSE, prior |-> 0, enumCalls |-> <<>>, appended |-> <<>>,
     enumThrew |-> FALSE, onCurrent |-> TRUE, threw |-> "",
     \* how the last focusWindow call ended: "true", "false", "throw", or "none"
     focused |-> "none",
     \* how the isWindowValid call ended: "true", "false", "throw", "timeout"
     \* (also for a call that never answers), or "none"
     validated |-> "none",
     \* the pushes of recordFocusRequest not older than RATE_LIMIT_WINDOW when
     \* the call was made, and whether the call made one itself
     recent |-> 0, recorded |-> FALSE,
     \* the entry point called, and the state of the std::async task whose
     \* future the call still owns
     entry |-> "focusWindowByHandle", async |-> "none"]

\* what a caller gets back from a Facade call: a bool, a list or an exception;
\* at and failed are history of the call: when it was made (kept for
\* getAllWindows) and whether a call into the Enumerator threw
NoReturn ==
    [op |-> None, ok |-> FALSE, list |-> <<>>, threw |-> "", at |-> 0, failed |-> FALSE]

CallBudget == IF enumerator = "Platform" THEN MaxFocusCalls ELSE MaxRateCalls

\* accepted calls whose check happened less than RATE_LIMIT_WINDOW before now
AcceptedWithin(now) ==
    Cardinality({i \in DOMAIN acceptTimes :
                    acceptTimes[i] > now - RATE_LIMIT_WINDOW * TicksPerSecond})

\* pushes of recordFocusRequest made at a reading in [now - RATE_LIMIT_WINDOW, now]
RecordedWithin(now) ==
    Cardinality({i \in DOMAIN recordTimes :
                    /\ recordTimes[i] >= now - RATE_LIMIT_WINDOW * TicksPerSecond
                    /\ recordTimes[i] <= now})

\* the accept times that still count at now: those less than RATE_LIMIT_WINDOW old
RecentAccepts(now) ==
    SelectSeq(acceptTimes, LAMBDA time : time > now - RATE_LIMIT_WINDOW * TicksPerSecond)

\* the frame after a call into the Enumerator that had this outcome
Called(t, name, outcome) ==
    [frame[t] EXCEPT !.enumCalls = Append(@, name),
                     !.enumThrew = @ \/ outcome.kind = "throw",
                     !.validated = IF name # "isWindowValid" THEN @
                                   ELSE IF outcome.kind = "throw" THEN "throw"
                                   ELSE IF outcome.kind # "return" THEN "timeout"
                                   ELSE IF outcome.val THEN "true" ELSE "false",
                     !.focused = IF name # "focusWindow" THEN @
                                 ELSE IF outcome.kind = "throw" THEN "throw"
                                 ELSE IF outcome.val THEN "true" ELSE "false"]

\* the outcome is an exception that no catch (const std::exception&) matches
Escapes(outcome) == outcome.kind = "throw" /\ ~IsStdException(outcome.err)

\* the frame of a call that an exception leaves
Propagate(f, err) == [f EXCEPT !.threw = err, !.result = FALSE]

----------------------------------------------------------------------------
(* focusWindowByHandle, one action per step between two points at which     *)
(* another thread, or the clock, can be observed                             *)

\* a rejected call that goes on to addToFocusHistory
Rejected_recorded == "add"

\* where a call is after `return false` of the rate-limit test: no
\* FocusOperation exists and addToFocusHistory is not reached
Rejected == "returned"

\* entry: checkRateLimit() under rateLimitMutex_, then the FocusRequest and
\* the PENDING FocusOperation
F_Call(t) ==
    /\ pc[t] = "idle"
    /\ calls < CallBudget
    /\ \E handle \in Handles, allow \in BOOLEAN :
         LET pruned == PruneRequestTimes(focusRequestTimes, clock)
             ok == UnderRateLimit(pruned)
             base == [IdleFrame EXCEPT !.handle = handle, !.allow = allow,
                                       !.prior = AcceptedWithin(clock),
                                       !.recent = RecordedWithin(clock)]
         IN /\ enumerator # "Platform" => (handle = "w1" /\ allow)
            /\ focusRequestTimes' = pruned
            /\ IF ok
               THEN /\ frame' = [frame EXCEPT ![t] =
                            [base EXCEPT !.accepted = TRUE,
                                         !.op = NewOperation(NewRequest(handle, allow, clock))]]
                    /\ pc' = [pc EXCEPT ![t] = "record"]
                    /\ acceptTimes' = Append(RecentAccepts(clock), clock)
               ELSE /\ frame' = [frame EXCEPT ![t] = [base EXCEPT !.result = FALSE]]
                    /\ pc' = [pc EXCEPT ![t] = Rejected]
                    /\ acceptTimes' = RecentAccepts(clock)
    /\ calls' = calls + 1
    /\ UNCHANGED <<clock, focusHistory, appendLog, recordTimes, ret, cacheVars, platformVars, errorVars,
                   filterVars>>

\* recordFocusRequest() under rateLimitMutex_, then setStatus(VALIDATING)
F_Record(t) ==
    /\ pc[t] = "record"
    /\ focusRequestTimes' = Append(focusRequestTimes, clock)
    /\ recordTimes' = Append(recordTimes, clock)
    /\ frame' = [frame EXCEPT ![t].op = setStatus(@, "VALIDATING"), ![t].recorded = TRUE]
    /\ pc' = [pc EXCEPT ![t] = "validate"]
    /\ UNCHANGED <<clock, focusHistory, appendLog, calls, acceptTimes, ret, cacheVars, platformVars, errorVars, filterVars>>

\* a validateHandleWithTimeout that takes an isWindowValid that threw for a
\* valid handle
ValidationResult_throwIsValid(handle, outcome) ==
    IF handle = "" THEN FALSE
    ELSE IF outcome.kind \in {"timeout", "hang"} THEN FALSE
    ELSE IF outcome.kind = "throw" THEN TRUE
    ELSE outcome.val

\* validateHandleWithTimeout: the value it returns for an outcome of the
\* asynchronous isWindowValid call
ValidationResult(handle, outcome) ==
    IF handle = "" THEN FALSE
    ELSE IF TimedOut(outcome) THEN FALSE
    ELSE IF outcome.kind = "throw" THEN FALSE
    ELSE outcome.val

\* validateHandle(handle); on failure fail("Invalid window handle").  After
\* a timeout, `return false` first destroys the future of std::async, which
\* blocks until the task has finished
F_Validate(t) ==
    /\ pc[t] = "validate"
    /\ \E outcome \in IsWindowValidOutcomes :
         LET f == IF frame[t].handle = "" THEN frame[t]
                  ELSE Called(t, "isWindowValid", outcome)
         IN IF frame[t].handle # "" /\ Escapes(outcome)
            THEN /\ frame' = [frame EXCEPT ![t] = Propagate(f, outcome.err)]
                 /\ pc' = [pc EXCEPT ![t] = "returned"]
            ELSE IF frame[t].handle # "" /\ TimedOut(outcome)
            THEN /\ frame' = [frame EXCEPT ![t] = [f EXCEPT !.async = outcome.kind]]
                 /\ pc' = [pc EXCEPT ![t] = "join"]
            ELSE IF ValidationResult(frame[t].handle, outcome)
            THEN /\ frame' = [frame EXCEPT ![t] = [f EXCEPT !.op = setStatus(@, "FOCUSING")]]
                 /\ pc' = [pc EXCEPT ![t] = "getInfo"]
            ELSE /\ frame' = [frame EXCEPT ![t] =
                        [f EXCEPT !.op = fail(@, "Invalid window handle")]]
                 /\ pc' = [pc EXCEPT ![t] = "add"]
    /\ UNCHANGED <<clock, focusRequestTimes, focusHistory, appendLog, calls, acceptTimes, recordTimes, ret, cacheVars, platformVars, errorVars, filterVars>>

\* validateHandleWithTimeout after the timeout: ~future() returns once the
\* isWindowValid call has returned, and the function returns false.  A call
\* that never returns leaves the caller here
F_Join(t) ==
    /\ pc[t] = "join"
    /\ frame[t].async = "timeout"
    /\ IF frame[t].entry = "focusWindowByHandle"
       THEN /\ frame' = [frame EXCEPT ![t] =
                   [@ EXCEPT !.op = fail(@, "Invalid window handle"), !.async = "joined"]]
            /\ pc' = [pc EXCEPT ![t] = "add"]
       ELSE /\ frame' = [frame EXCEPT ![t] = [@ EXCEPT !.result = FALSE, !.async = "joined"]]
            /\ pc' = [pc EXCEPT ![t] = "returned"]
    /\ UNCHANGED <<clock, focusRequestTimes, focusHistory, appendLog, calls, acceptTimes, recordTimes, ret, cacheVars, platformVars, errorVars, filterVars>>

\* getWindowByHandle(handle) and the workspace decision
F_GetInfo(t) ==
    /\ pc[t] = "getInfo"
    /\ \E outcome \in GetWindowInfoOutcomes :
         LET f == Called(t, "getWindowInfo", outcome)
             w == outcome.val[1]
         IN IF Escapes(outcome)
            THEN /\ frame' = [frame EXCEPT ![t] = Propagate(f, outcome.err)]
                 /\ pc' = [pc EXCEPT ![t] = "returned"]
            ELSE IF outcome.kind = "throw"
            THEN \* catch (const std::exception& e)
                 /\ frame' = [frame EXCEPT ![t] = [f EXCEPT !.op = fail(@, What(outcome.err))]]
                 /\ pc' = [pc EXCEPT ![t] = "add"]
            ELSE IF outcome.val = Nullopt
            THEN /\ frame' = [frame EXCEPT ![t] = [f EXCEPT !.op = fail(@, "Window not found")]]
                 /\ pc' = [pc EXCEPT ![t] = "add"]
            ELSE LET op1 == [f.op EXCEPT !.request.crossWorkspace = ~w.isOnCurrentWorkspace,
                                         !.request.sourceWorkspace = "current",
                                         !.request.targetWorkspace = w.workspaceId]
                     f1 == [f EXCEPT !.op = op1, !.windowInfo = outcome.val,
                                     !.onCurrent = w.isOnCurrentWorkspace]
                 IN IF ~w.isOnCurrentWorkspace /\ ~f.allow
                    THEN /\ frame' = [frame EXCEPT ![t] = [f1 EXCEPT !.op =
                                fail(@, "Window requires workspace switch but not allowed")]]
                         /\ pc' = [pc EXCEPT ![t] = "add"]
                    ELSE IF ~w.isOnCurrentWorkspace
                    THEN /\ frame' = [frame EXCEPT ![t] = [f1 EXCEPT !.op =
                                markWorkspaceSwitched(setStatus(@, "SWITCHING_WORKSPACE"))]]
                         /\ pc' = [pc EXCEPT ![t] = "acrossInfo"]
                    ELSE /\ frame' = [frame EXCEPT ![t] = f1]
                         /\ pc' = [pc EXCEPT ![t] = "focusCurrent"]
    /\ UNCHANGED <<clock, focusRequestTimes, focusHistory, appendLog, calls, acceptTimes, recordTimes, ret, cacheVars, platformVars, errorVars, filterVars>>

\* the tail of focusWindowByHandle once the focus attempt has an outcome:
\* complete() / fail("Focus operation failed"), or the catch clause
Finish(f, outcome) ==
    IF outcome.kind = "throw"
    THEN [f EXCEPT !.op = fail(@, What(outcome.err)), !.success = FALSE]
    ELSE IF outcome.val
    THEN [f EXCEPT !.op = complete(@), !.success = TRUE]
    ELSE [f EXCEPT !.op = fail(@, "Focus operation failed"), !.success = FALSE]

\* focusWindowInCurrentWorkspace(handle)
F_FocusCurrent(t) ==
    /\ pc[t] = "focusCurrent"
    /\ \E outcome \in BoolOutcomes :
         LET f == Called(t, "focusWindow", outcome)
         IN IF Escapes(outcome)
            THEN /\ frame' = [frame EXCEPT ![t] = Propagate(f, outcome.err)]
                 /\ pc' = [pc EXCEPT ![t] = "returned"]
            ELSE /\ frame' = [frame EXCEPT ![t] = Finish(f, outcome)]
                 /\ pc' = [pc EXCEPT ![t] = "add"]
    /\ UNCHANGED <<clock, focusRequestTimes, focusHistory, appendLog, calls, acceptTimes, recordTimes, ret, cacheVars, platformVars, errorVars, filterVars>>

\* focusWindowAcrossWorkspaces: getWindowByHandle again
A_GetInfo(t) ==
    /\ pc[t] = "acrossInfo"
    /\ \E outcome \in GetWindowInfoOutcomes :
         LET f == Called(t, "getWindowInfo", outcome)
         IN IF Escapes(outcome)
            THEN /\ frame' = [frame EXCEPT ![t] = Propagate(f, outcome.err)]
                 /\ pc' = [pc EXCEPT ![t] = "returned"]
            ELSE IF outcome.kind = "throw" \/ outcome.val = Nullopt
            THEN \* return false (not found, or the inner catch)
                 /\ frame' = [frame EXCEPT ![t] = Finish(f, Returns(FALSE))]
                 /\ pc' = [pc EXCEPT ![t] = "add"]
            ELSE /\ frame' = [frame EXCEPT ![t] = [f EXCEPT !.windowInfo = outcome.val]]
                 /\ pc' = [pc EXCEPT ![t] = "acrossCan"]
    /\ UNCHANGED <<clock, focusRequestTimes, focusHistory, appendLog, calls, acceptTimes, recordTimes, ret, cacheVars, platformVars, errorVars, filterVars>>

\* focusWindowAcrossWorkspaces: canSwitchWorkspaces()
A_CanSwitch(t) ==
    /\ pc[t] = "acrossCan"
    /\ \E outcome \in CanSwitchOutcomes :
         /\ frame' = [frame EXCEPT ![t] = Called(t, "canSwitchWorkspaces", outcome)]
         /\ pc' = [pc EXCEPT ![t] =
                IF outcome.val /\ frame[t].windowInfo[1].workspaceId # ""
                THEN "acrossSwitch" ELSE "acrossFocus"]
    /\ UNCHANGED <<clock, focusRequestTimes, focusHistory, appendLog, calls, acceptTimes, recordTimes, ret, cacheVars, platformVars, errorVars, filterVars>>

\* focusWindowAcrossWorkspaces: switchToWorkspace(windowInfo->workspaceId)
A_Switch(t) ==
    /\ pc[t] = "acrossSwitch"
    /\ \E outcome \in BoolOutcomes :
         LET f == Called(t, IF outcome.kind = "return" /\ outcome.val
                            THEN "switchToWorkspace:true" ELSE "switchToWorkspace",
                        outcome)
         IN IF Escapes(outcome)
            THEN /\ frame' = [frame EXCEPT ![t] = Propagate(f, outcome.err)]
                 /\ pc' = [pc EXCEPT ![t] = "returned"]
            ELSE IF outcome.kind = "throw"
            THEN \* inner catch: return false
                 /\ frame' = [frame EXCEPT ![t] = Finish(f, Returns(FALSE))]
                 /\ pc' = [pc EXCEPT ![t] = "add"]
            ELSE /\ frame' = [frame EXCEPT ![t] = f]
                 /\ pc' = [pc EXCEPT ![t] = "acrossFocus"]
    /\ UNCHANGED <<clock, focusRequestTimes, focusHistory, appendLog, calls, acceptTimes, recordTimes, ret, cacheVars, platformVars, errorVars, filterVars>>

\* focusWindowAcrossWorkspaces: focusWindow(handle)
A_Focus(t) ==
    /\ pc[t] = "acrossFocus"
    /\ \E outcome \in BoolOutcomes :
         LET f == Called(t, "focusWindow", outcome)
         IN IF Escapes(outcome)
            THEN /\ frame' = [frame EXCEPT ![t] = Propagate(f, outcome.err)]
                 /\ pc' = [pc EXCEPT ![t] = "returned"]
            ELSE /\ frame' = [frame EXCEPT ![t] =
                        \* inner catch: return false
                        Finish(f, IF outcome.kind = "throw" THEN Returns(FALSE) ELSE outcome)]
                 /\ pc' = [pc EXCEPT ![t] = "add"]
    /\ UNCHANGED <<clock, focusRequestTimes, focusHistory, appendLog, calls, acceptTimes, recordTimes, ret, cacheVars, platformVars, errorVars, filterVars>>

\* addToFocusHistory(operation) under focusHistoryMutex_, then the return
F_AddHistory(t) ==
    /\ pc[t] = "add"
    /\ focusHistory' = AppendToHistory(focusHistory, frame[t].op)
    /\ appendLog' = Append(appendLog, frame[t].op)
    /\ frame' = [frame EXCEPT ![t].appended = Append(@, frame[t].op),
                              ![t].result = frame[t].success]
    /\ pc' = [pc EXCEPT ![t] = "returned"]
    /\ UNCHANGED <<clock, focusRequestTimes, calls, acceptTimes, recordTimes, ret, cacheVars, platformVars, errorVars, filterVars>>

\* the caller has the result; its frame is destroyed
F_Return(t) ==
    /\ pc[t] = "returned"
    /\ ret' = [NoReturn EXCEPT !.op = frame[t].entry, !.ok = frame[t].result,
                                !.threw = frame[t].threw,
                                !.failed = frame[t].enumThrew]
    /\ frame' = [frame EXCEPT ![t] = IdleFrame]
    /\ pc' = [pc EXCEPT ![t] = "idle"]
    /\ UNCHANGED <<clock, focusRequestTimes, focusHistory, appendLog, calls, acceptTimes, recordTimes, cacheVars, platformVars, errorVars, filterVars>>

\* clearFocusHistory() under focusHistoryMutex_
ClearFocusHistory(t) ==
    /\ pc[t] = "idle"
    /\ focusHistory' = <<>>
    /\ appendLog' = <<>>
    /\ ret' = [NoReturn EXCEPT !.op = "clearFocusHistory"]
    /\ UNCHANGED <<clock, pc, focusRequestTimes, frame, calls, acceptTimes, recordTimes,
                   cacheVars, platformVars, errorVars, filterVars>>

\* the operation of a completed focusWindowByHandle("w1", true) call made
\* `age` seconds before the clock reading 0, for a window on the current
\* workspace
EarlierOperation(age) ==
    complete([NewOperation(NewRequest("w1", TRUE, 0 - age * TicksPerSecond))
                 EXCEPT !.request.crossWorkspace = FALSE,
                        !.request.sourceWorkspace = "current",
                        !.request.targetWorkspace = "ws1"])

\* the focus history after n such calls, one every two seconds, the last one
\* two seconds before the clock reading 0
EarlierHistory(n) == [i \in 1 .. n |-> EarlierOperation(2 * (n - i + 1))]

\* the lengths of the focus history at the clock reading 0: empty, one short
\* of full, full
HistoryFills == {0, MAX_FOCUS_HISTORY_SIZE - 1, MAX_FOCUS_HISTORY_SIZE}

\* positions whose next step neither reads the clock nor calls the Enumerator:
\* a copy, a store or a return.  A caller there takes no measurable time
\* unless it has to wait for a mutex
Instantaneous ==
    {"add", "returned", "g_hit", "g_copy", "c_returned", "e_inv", "w_hit", "w_copy",
     "s_filter"}

\* the mutex a caller at this position needs, 0 when it needs none
Needs(position) ==
    CASE position \in {"g_hit", "g_copy", "e_inv"} -> cacheMutex
      [] position \in {"w_hit", "w_copy"} -> workspaceCacheMutex
      [] OTHER -> 0

\* the four mutexes of the Facade (window_manager.hpp)
Locks == {"cacheMutex_", "workspaceCacheMutex_", "rateLimitMutex_", "focusHistoryMutex_"}

\* the caller whose lock_guard on the mutex is alive between two steps, 0 when
\* there is none: the guards of checkRateLimit, recordFocusRequest,
\* addToFocusHistory and clearFocusHistory begin and end inside one step
Holder(lock) ==
    CASE lock = "cacheMutex_" -> cacheMutex
      [] lock = "workspaceCacheMutex_" -> workspaceCacheMutex
      [] OTHER -> 0

LocksHeld(t) == {lock \in Locks : Holder(lock) = t}

\* the mutex the code at this position locks, or keeps locked, in its next step
LockTaken(position) ==
    CASE position \in {"g_hit", "g_copy", "e_inv", "u_lock", "u_enum"} -> {"cacheMutex_"}
      [] position \in {"w_hit", "w_copy", "wu_lock", "wu_enum", "ra_invw", "pm_count"}
            -> {"workspaceCacheMutex_"}
      [] position = "record" -> {"rateLimitMutex_"}
      [] position = "add" -> {"focusHistoryMutex_"}
      [] OTHER -> {}

\* the callers whose lock this caller is waiting for
WaitsFor(t) == {Holder(lock) : lock \in LockTaken(pc[t])} \ {0, t}

\* the readings of steady_clock up to a horizon, in ticks
Upto(horizon) == 0 .. horizon * TicksPerSecond

\* the readings one caller of the caches sees, in ticks: just inside and just
\* outside each validity duration
CacheInstants == {second * TicksPerSecond : second \in {0, 4, 5, 9, 10}}

\* steady_clock advances to a later reading while every caller is idle, inside
\* a call into the Enumerator, or waiting for a mutex
Tick(instants) ==
    /\ \A t \in Callers : pc[t] \in Instantaneous => Needs(pc[t]) # 0
    /\ \E later \in instants : later > clock /\ clock' = later
    /\ UNCHANGED <<pc, ret, focusVars, cacheVars, platformVars, errorVars, filterVars>>

----------------------------------------------------------------------------
(* validateHandle / validateHandleWithTimeout called directly *)

ValidateHandle(t) ==
    /\ pc[t] = "idle"
    /\ calls < CallBudget
    /\ \E handle \in Handles, op \in {"validateHandle", "validateHandleWithTimeout"},
          outcome \in IsWindowValidOutcomes :
         IF handle # "" /\ TimedOut(outcome)
         THEN \* the wait timed out: the call is held in ~future()
              /\ frame' = [frame EXCEPT ![t] =
                     [IdleFrame EXCEPT !.handle = handle, !.entry = op,
                                       !.enumCalls = <<"isWindowValid">>,
                                       !.async = outcome.kind]]
              /\ pc' = [pc EXCEPT ![t] = "join"]
              /\ UNCHANGED ret
         ELSE /\ ret' = [NoReturn EXCEPT !.op = op,
                                 !.ok = ValidationResult(handle, outcome),
                                 !.threw = IF handle # "" /\ Escapes(outcome)
                                           THEN outcome.err ELSE "",
                                 !.failed = (handle # "" /\ outcome.kind = "throw")]
              /\ UNCHANGED <<pc, frame>>
    /\ calls' = calls + 1
    /\ UNCHANGED <<clock, focusRequestTimes, focusHistory, appendLog, acceptTimes, recordTimes,
                   cacheVars, platformVars, errorVars, filterVars>>

----------------------------------------------------------------------------
(* Windows and workspaces of the platform *)

WinA == [handle |-> "w1", title |-> "Alpha", isVisible |-> TRUE, ownerName |-> "term",
         workspaceId |-> "ws1", processId |-> 1]
WinA2 == [handle |-> "w3", title |-> "Alpha", isVisible |-> TRUE, ownerName |-> "term",
          workspaceId |-> "ws1", processId |-> 3]
WinB == [handle |-> "w2", title |-> "Beta", isVisible |-> FALSE, ownerName |-> "edit",
         workspaceId |-> "ws2", processId |-> 2]
\* window w2 after it has been shown
WinBShown == [WinB EXCEPT !.isVisible = TRUE]

\* the window lists the platform can have.  On the "Shifting" desktop window
\* w2 is shown or hidden, and window w1 is closed while a window w3 of the same
\* application, title and workspace is opened
SysWindowLists ==
    IF enumerator = "Shifting"
    THEN {<<WinB, WinA>>, <<WinBShown, WinA>>, <<WinB, WinA2>>}
    ELSE IF enumerator = "Detecting"
    THEN {<<WinB, WinA>>, <<WinB>>}
    ELSE {<<WinB, WinA>>, <<WinA2, WinA>>}

Ws1(current) == [id |-> "ws1", name |-> "One", index |-> 0, isCurrent |-> current]
Ws2(current) == [id |-> "ws2", name |-> "Two", index |-> 1, isCurrent |-> current]

SysWorkspaceLists == {<<Ws1(TRUE), Ws2(FALSE)>>}

\* defaultWorkspaces.emplace_back("default", "Desktop", 0, true)
DefaultWorkspaces == <<[id |-> "default", name |-> "Desktop", index |-> 0, isCurrent |-> TRUE]>>

\* std::string operator< on the titles of the model
TitleOrder == <<"Alpha", "Beta">>
TitleIndex(title) == CHOOSE i \in DOMAIN TitleOrder : TitleOrder[i] = title
TitleLess(a, b) == TitleIndex(a) < TitleIndex(b)

EnumerateWindowsOutcomes ==
    {Returns(sysWindows)} \cup {Throws(e, <<>>) : e \in EnumerationErrors}

\* getWorkspaceName(workspaceId)
WorkspaceName(workspaceId) ==
    CASE workspaceId = "ws1" -> "One"
      [] workspaceId = "ws2" -> "Two"
      [] OTHER -> "Desktop"

\* std::set<std::string> iteration order on the workspace ids of the model
WorkspaceIdOrder == <<"ws1", "ws2">>

\* CocoaEnumerator::enumerateWorkspaces (Win32Enumerator's is the same with its
\* own helpers): the workspaces are the workspace ids found among the windows;
\* the current one is the workspace of the first window that is on the current
\* workspace, which for Cocoa is a window visible on screen; with no id found
\* the list is one default workspace
DetectWorkspaces(windows) ==
    LET detected == {windows[i].workspaceId : i \in DOMAIN windows} \ {""}
        onCurrent == {i \in DOMAIN windows :
                         windows[i].workspaceId # "" /\ windows[i].isVisible}
        currentWorkspaceId ==
            IF onCurrent = {} THEN ""
            ELSE windows[CHOOSE i \in onCurrent : \A j \in onCurrent : i <= j].workspaceId
        ids == SelectSeq(WorkspaceIdOrder, LAMBDA id : id \in detected)
    IN IF detected = {}
       THEN <<[id |-> "current", name |-> "Desktop 1", index |-> 0, isCurrent |-> TRUE]>>
       ELSE [i \in DOMAIN ids |->
                [id |-> ids[i], name |-> WorkspaceName(ids[i]), index |-> i - 1,
                 isCurrent |-> (ids[i] = currentWorkspaceId)]]

EnumerateWorkspacesOutcomes ==
    IF enumerator = "Detecting"
    THEN {Returns(DetectWorkspaces(sysWindows))}
    ELSE {Returns(sysWorkspaces)} \cup {Throws(e, <<>>) : e \in EnumerationErrors}

\* the windows of the platform change
SysChange ==
    /\ sysWindows' \in SysWindowLists \ {sysWindows}
    /\ UNCHANGED <<clock, pc, ret, focusVars, cacheVars, filterVars, errorVars,
                   enumerator, sysWorkspaces, workspaceSupported>>

----------------------------------------------------------------------------
(* Search queries (search_query.cpp) and filter results (filter_result.cpp) *)

\* the characters of the strings of the model
Characters(string) ==
    CASE string = "Alpha" -> <<"A", "l", "p", "h", "a">>
      [] string = "Beta" -> <<"B", "e", "t", "a">>
      [] string = "term" -> <<"t", "e", "r", "m">>
      [] string = "edit" -> <<"e", "d", "i", "t">>
      [] string = "Al" -> <<"A", "l">>
      [] string = "al" -> <<"a", "l">>
      [] string = "e" -> <<"e">>
      [] OTHER -> <<>>

\* std::tolower on the characters of the model
ToLowerChar(c) ==
    CASE c = "A" -> "a"
      [] c = "B" -> "b"
      [] OTHER -> c

\* std::transform(..., tolower)
ToLower(text) == [i \in DOMAIN text |-> ToLowerChar(text[i])]

\* text.find(term) != npos
Contains(text, term) ==
    \E start \in 0 .. (Len(text) - Len(term)) :
        SubSeq(text, start + 1, start + Len(term)) = term

\* std::regex_search with a pattern that has no metacharacter finds the
\* pattern as a substring
RegexSearch(text, pattern) == Contains(text, pattern)

\* SearchField
SearchFields == {"Title", "Owner", "Both"}

\* static_cast<int>(query.field)
FieldInt(field) ==
    CASE field = "Title" -> 0
      [] field = "Owner" -> 1
      [] OTHER -> 2

\* SearchQuery(query, field, caseSensitive, useRegex)
SearchQuery(query, field, caseSensitive, useRegex) ==
    [query |-> query, field |-> field, caseSensitive |-> caseSensitive,
     useRegex |-> useRegex, workspaceFilter |-> ""]

\* SearchQuery(), and SearchQuery(keyword) with its default arguments
EmptyQuery == SearchQuery("", "Both", FALSE, FALSE)
Keyword(keyword) == SearchQuery(keyword, "Both", FALSE, FALSE)

\* a query restricted to one workspace
OnWorkspace(query, workspaceId) == [query EXCEPT !.workspaceFilter = workspaceId]

isEmpty(query) == query.query = ""

\* performStringMatch(text, searchQuery)
performStringMatch(query, text) ==
    IF query.query = "" THEN TRUE
    ELSE LET targetText == IF query.caseSensitive THEN Characters(text)
                           ELSE ToLower(Characters(text))
             searchTerm == IF query.caseSensitive THEN Characters(query.query)
                           ELSE ToLower(Characters(query.query))
         IN IF query.useRegex THEN RegexSearch(targetText, searchTerm)
            ELSE Contains(targetText, searchTerm)

\* a matches() that does not look at the workspace filter
matches_anyWorkspace(query, window) ==
    IF isEmpty(query) THEN TRUE
    ELSE LET titleMatch == query.field \in {"Title", "Both"}
                           /\ performStringMatch(query, window.title)
             ownerMatch == query.field \in {"Owner", "Both"}
                           /\ performStringMatch(query, window.ownerName)
         IN CASE query.field = "Title" -> titleMatch
              [] query.field = "Owner" -> ownerMatch
              [] OTHER -> titleMatch \/ ownerMatch

\* SearchQuery::matches(window)
matches(query, window) ==
    IF isEmpty(query) THEN TRUE
    ELSE IF query.workspaceFilter # "" /\ window.workspaceId # query.workspaceFilter
    THEN FALSE
    ELSE LET titleMatch == query.field \in {"Title", "Both"}
                           /\ performStringMatch(query, window.title)
             ownerMatch == query.field \in {"Owner", "Both"}
                           /\ performStringMatch(query, window.ownerName)
         IN CASE query.field = "Title" -> titleMatch
              [] query.field = "Owner" -> ownerMatch
              [] OTHER -> titleMatch \/ ownerMatch

\* a constructor that takes filteredCount from its `total` argument
FilterResult_totalAsCount(windows, total, query, workspaces) ==
    [windows |-> windows, totalCount |-> total, filteredCount |-> total,
     query |-> query, workspaces |-> workspaces]

\* FilterResult(windows, total, query, time[, workspaces]): filteredCount is
\* this->windows.size().  The elapsed time is not part of the model
FilterResult(windows, total, query, workspaces) ==
    [windows |-> windows, totalCount |-> total, filteredCount |-> Len(windows),
     query |-> query, workspaces |-> workspaces]

\* FilterResult() = default: the two counts of a default-initialized object
\* are indeterminate
DefaultFilterResults(counts) ==
    {[windows |-> <<>>, totalCount |-> total, filteredCount |-> filtered,
      query |-> EmptyQuery, workspaces |-> <<>>] : total \in counts, filtered \in counts}

\* the FilterResult of a call that has built none
NoResult == FilterResult(<<>>, 0, EmptyQuery, <<>>)

\* generateCacheKey(windows, query).  The combined hash is written as the
\* sequence of the strings it is computed from, so different contents never
\* share a key
generateCacheKey(windows, query) ==
    [count |-> Len(windows), query |-> query.query, field |-> FieldInt(query.field),
     case |-> query.caseSensitive, regex |-> query.useRegex,
     workspace |-> query.workspaceFilter,
     hash |-> [i \in DOMAIN windows |->
                  <<windows[i].title, windows[i].ownerName, windows[i].workspaceId>>]]

\* the orders std::sort by (title, processId) can leave
SortedByTitleAndProcess(windows) ==
    LET n == Len(windows)
        perms == {p \in [1..n -> 1..n] : \A i, j \in 1..n : i # j => p[i] # p[j]}
        less(a, b) == IF a.title # b.title THEN TitleLess(a.title, b.title)
                      ELSE a.processId < b.processId
        sorted(p) == \A i, j \in 1..n : i < j => ~less(windows[p[j]], windows[p[i]])
    IN {[i \in 1..n |-> windows[p[i]]] : p \in {q \in perms : sorted(q)}}

\* performFilter(windows, query)
performFilter(windows, query) ==
    LET filteredWindows ==
            IF isEmpty(query) THEN SelectSeq(windows, LAMBDA w : w.isVisible)
            ELSE SelectSeq(windows, LAMBDA w : matches(query, w))
        ordered == IF Len(filteredWindows) <= FILTER_SORT_LIMIT
                   THEN SortedByTitleAndProcess(filteredWindows)
                   ELSE {filteredWindows}
    IN {FilterResult(sorted, Len(windows), query, <<>>) : sorted \in ordered}

\* WindowFilter::filterVisible(windows)
filterVisible(windows) ==
    FilterResult(SelectSeq(windows, LAMBDA w : w.isVisible), Len(windows), EmptyQuery, <<>>)

\* WindowFilterImpl::filterWithWorkspaces(windows, query, workspaces)
filterWithWorkspaces(windows, query, workspaces) ==
    {FilterResult(result.windows, result.totalCount, result.query, workspaces) :
        result \in performFilter(windows, query)}

\* WindowManager::getEmptyResult(query)
getEmptyResult(query) == FilterResult(<<>>, 0, query, <<>>)

\* the queries of the model: searchWindows(keyword) for each term, and
\* searchWindows(query) with a field, case sensitivity, regular expression or
\* workspace filter chosen
Terms == {"", "al", "Al", "e"}
SearchQueries ==
    {Keyword(term) : term \in Terms}
    \cup {SearchQuery("al", "Title", TRUE, FALSE), SearchQuery("e", "Owner", FALSE, FALSE),
          SearchQuery("Al", "Both", TRUE, TRUE)}
    \cup {OnWorkspace(Keyword(term), "ws2") : term \in {"", "al", "e"}}

-----------------------------------------------------------------------------
(* The wire record of a window (window.cpp, compatibility_validator.cpp).   *)
(* A text is the sequence of its characters.  The text toJson writes is the *)
(* sequence of its tokens: a brace, a comma, a colon, a quotation mark, a   *)
(* number, true, false, a character of a string of the window; a field name *)
(* the code writes as a literal is one token, and the white space between   *)
(* the tokens is left out.                                                  *)

\* the characters of the strings of a window: a letter, the quotation mark and
\* the backslash
TextCharacters == {"a", "\"", "\\"}
Texts == UNION {[1 .. n -> TextCharacters] : n \in 0 .. MaxTextLen}

\* enum class WindowState
WindowStates == {"Normal", "Minimized", "Focused", "Hidden"}

\* the numbers of a window
WireNumbers == {-1, 0, 1, 6, 8}

\* a WindowInfo object with every field toJson writes
WindowInfo(handle, title, width, isVisible, state) ==
    [handle |-> handle, title |-> title, x |-> -1, y |-> 0, width |-> width, height |-> 6,
     isVisible |-> isVisible, processId |-> 1, ownerName |-> <<"a">>,
     workspaceId |-> <<"a">>, workspaceName |-> <<>>, isOnCurrentWorkspace |-> isVisible,
     state |-> state, isFocused |-> (state = "Focused"),
     isMinimized |-> (state = "Minimized")]

WindowInfos ==
    {WindowInfo(handle, title, width, isVisible, state) :
        handle \in {<<>>, <<"w">>}, title \in Texts, width \in {0, 8},
        isVisible \in BOOLEAN, state \in WindowStates}

NoWindowInfo == WindowInfo(<<>>, <<>>, 0, FALSE, "Normal")

\* WindowInfo::hasValidDimensions()
hasValidDimensions(window) == window.width > 0 /\ window.height > 0

\* WindowInfo::isValid(); its last conjunct,
\* workspaceId.empty() || workspaceId.length() > 0, holds of every string
isValid(window) ==
    /\ window.handle # <<>>
    /\ hasValidDimensions(window)
    /\ window.processId > 0
    /\ (window.workspaceId = <<>> \/ Len(window.workspaceId) > 0)

\* oss << "  \"name\": "
JsonKey(name) == <<"\"", name, "\"", ":">>

\* oss << "\"" << text << "\"": the characters of the string as they are
JsonString(text) == <<"\"">> \o text \o <<"\"">>

\* oss << number
JsonNumber(number) == <<ToString(number)>>

\* oss << (flag ? "true" : "false")
JsonBoolean(flag) == <<IF flag THEN "true" ELSE "false">>

\* WindowInfo::toJson()
toJson(window) ==
    <<"{">>
    \o JsonKey("handle") \o JsonString(window.handle) \o <<",">>
    \o JsonKey("title") \o JsonString(window.title) \o <<",">>
    \o JsonKey("x") \o JsonNumber(window.x) \o <<",">>
    \o JsonKey("y") \o JsonNumber(window.y) \o <<",">>
    \o JsonKey("width") \o JsonNumber(window.width) \o <<",">>
    \o JsonKey("height") \o JsonNumber(window.height) \o <<",">>
    \o JsonKey("isVisible") \o JsonBoolean(window.isVisible) \o <<",">>
    \o JsonKey("processId") \o JsonNumber(window.processId) \o <<",">>
    \o JsonKey("ownerName") \o JsonString(window.ownerName) \o <<",">>
    \o JsonKey("workspaceId") \o JsonString(window.workspaceId) \o <<",">>
    \o JsonKey("workspaceName") \o JsonString(window.workspaceName) \o <<",">>
    \o JsonKey("isOnCurrentWorkspace") \o JsonBoolean(window.isOnCurrentWorkspace) \o <<",">>
    \o JsonKey("state") \o JsonString(<<window.state>>) \o <<",">>
    \o JsonKey("isFocused") \o JsonBoolean(window.isFocused) \o <<",">>
    \o JsonKey("isMinimized") \o JsonBoolean(window.isMinimized)
    \o <<"}">>

\* getLegacyWindowInfoSchema(): requiredFields with their fieldTypes
getLegacyWindowInfoSchema ==
    [handle |-> "string", title |-> "string", x |-> "number", y |-> "number",
     width |-> "number", height |-> "number", isVisible |-> "boolean",
     processId |-> "number", ownerName |-> "string"]

\* getCurrentWindowInfoSchema(): the fields added to the legacy ones
AddedFields ==
    {"workspaceId", "workspaceName", "isOnCurrentWorkspace", "state", "isFocused",
     "isMinimized"}

\* A consumer reads the record by the grammar of JSON.  In a string a
\* backslash escapes the character after it, which is how escapeJsonString
\* writes the quotation mark and the backslash; the string ends at the first
\* quotation mark that is not escaped.  StringEnd is the index of that
\* quotation mark in a string whose characters start at index i, 0 if the
\* string does not end or has a backslash that escapes nothing.
RECURSIVE StringEnd(_, _)
StringEnd(text, i) ==
    IF i > Len(text) THEN 0
    ELSE IF text[i] = "\"" THEN i
    ELSE IF text[i] = "\\"
         THEN IF i + 1 <= Len(text) /\ text[i + 1] \in {"\"", "\\"}
              THEN StringEnd(text, i + 2)
              ELSE 0
    ELSE StringEnd(text, i + 1)

\* the type of the value that starts at index i and the index after it:
\* "string", "number" (-?\d+), "boolean" (true, false), or "none"
ReadValue(text, i) ==
    IF i > Len(text) THEN [type |-> "none", next |-> i]
    ELSE IF text[i] = "\""
         THEN LET end == StringEnd(text, i + 1)
              IN IF end = 0 THEN [type |-> "none", next |-> i]
                 ELSE [type |-> "string", next |-> end + 1]
    ELSE IF text[i] \in {"true", "false"} THEN [type |-> "boolean", next |-> i + 1]
    ELSE IF text[i] \in {ToString(n) : n \in WireNumbers}
         THEN [type |-> "number", next |-> i + 1]
    ELSE [type |-> "none", next |-> i]

\* what a consumer reads from a text that is not a JSON object
Malformed == [ok |-> FALSE, fields |-> {}]

\* the members of the object from index i on, added to fields: pairs of a
\* field name and the type of its value
RECURSIVE ReadMembers(_, _, _)
ReadMembers(text, i, fields) ==
    LET key == ReadValue(text, i)
    IN IF key.type # "string" \/ key.next > Len(text) \/ text[key.next] # ":"
       THEN Malformed
       ELSE LET name == SubSeq(text, i + 1, key.next - 2)
                value == ReadValue(text, key.next + 1)
                read == fields \cup {<<name, value.type>>}
            IN IF value.type = "none" \/ value.next > Len(text) THEN Malformed
               ELSE IF text[value.next] = "," THEN ReadMembers(text, value.next + 1, read)
               ELSE IF text[value.next] = "}" /\ value.next = Len(text)
                    THEN [ok |-> TRUE, fields |-> read]
               ELSE Malformed

\* the record a consumer reads from the text of toJson
ReadRecord(text) ==
    IF Len(text) < 2 \/ text[1] # "{" THEN Malformed ELSE ReadMembers(text, 2, {})

----------------------------------------------------------------------------
(* Window cache *)

\* updateCache's memory limit: drop the non-visible windows, then truncate
CapWindows(windows) ==
    IF Len(windows) > MAX_CACHE_SIZE
    THEN LET visible == SelectSeq(windows, LAMBDA w : w.isVisible)
         IN IF Len(visible) > MAX_CACHE_SIZE
            THEN SubSeq(visible, 1, MAX_CACHE_SIZE)
            ELSE visible
    ELSE windows

\* the orders std::sort (up to SORT_THRESHOLD windows: windows with equal titles
\* in any order) or std::stable_sort (equal titles keep their order) can leave
SortedByTitle(windows) ==
    LET n == Len(windows)
        perms == {p \in [1..n -> 1..n] : \A i, j \in 1..n : i # j => p[i] # p[j]}
        sorted(p) == \A i, j \in 1..n :
                        i < j => ~TitleLess(windows[p[j]].title, windows[p[i]].title)
        stable(p) == \A i, j \in 1..n :
                        (i < j /\ windows[p[i]].title = windows[p[j]].title) => p[i] < p[j]
    IN {[i \in 1..n |-> windows[p[i]]] :
            p \in {q \in perms : sorted(q) /\ (n > SORT_THRESHOLD => stable(q))}}

\* a validity test that expires the cache one second early
IsCacheValid_early(valid, last, now) ==
    valid /\ ((now - last) \div TicksPerSecond) < CACHE_VALIDITY_DURATION - 1

\* a validity test that still accepts a cache of exactly the validity duration
IsCacheValid_inclusive(valid, last, now) ==
    valid /\ ((now - last) \div TicksPerSecond) <= CACHE_VALIDITY_DURATION

\* isCacheValid(): cacheAge = duration_cast<seconds>(now - lastUpdate_)
IsCacheValid(valid, last, now) ==
    valid /\ ((now - last) \div TicksPerSecond) < CACHE_VALIDITY_DURATION

\* isWorkspaceCacheValid()
IsWorkspaceCacheValid(valid, last, now) ==
    valid /\ ((now - last) \div TicksPerSecond) < WORKSPACE_CACHE_VALIDITY_DURATION

\* PerformanceMetrics metrics; the counts and the validity flags (the two
\* enumeration times and the two targets derived from them are durations the
\* Enumerator measures)
NoMetrics ==
    [totalWindowCount |-> 0, totalWorkspaceCount |-> 0,
     windowCacheValid |-> FALSE, workspaceCacheValid |-> FALSE]

IdleCache ==
    [op |-> None, at |-> 0, start |-> 0, list |-> <<>>, ok |-> FALSE, threw |-> "",
     \* history variables of the call
     enumerated |-> FALSE, failed |-> FALSE, fresh |-> <<>>,
     validAtCheck |-> FALSE, ageAtCheck |-> 0,
     \* searchWindows: the query, the FilterResult, the operation that built
     \* it, and whether it came from the filter's cache
     query |-> EmptyQuery, result |-> NoResult, built |-> "", cached |-> FALSE,
     \* toJson: the window and the text written
     window |-> NoWindowInfo, json |-> <<>>,
     \* getPerformanceMetrics: the counts and flags read so far
     metrics |-> NoMetrics]

Summary(c) ==
    [op |-> c.op, ok |-> c.ok, threw |-> c.threw,
     list |-> IF c.built # "" THEN c.result.windows
              ELSE IF c.op \in {"refreshAllCaches", "getPerformanceMetrics"} THEN <<>>
              ELSE c.list,
     at |-> IF c.op = "getAllWindows" /\ c.threw = "" THEN c.at ELSE 0,
     failed |-> c.failed]

\* getAllWindows(): cachingEnabled_ && isCacheValid(), read without the lock
G_Check(t) ==
    /\ pc[t] = "idle"
    /\ LET hit == cachingEnabled /\ IsCacheValid(cacheValid, lastUpdate, clock)
       IN /\ cframe' = [cframe EXCEPT ![t] =
                [IdleCache EXCEPT !.op = "getAllWindows", !.at = clock,
                                  !.validAtCheck = cacheValid,
                                  !.ageAtCheck = clock - lastUpdate]]
          /\ pc' = [pc EXCEPT ![t] = IF hit THEN "g_hit" ELSE "u_lock"]
    /\ UNCHANGED <<clock, ret, focusVars, platformVars, errorVars, filterVars, cachedWindows, cacheValid,
                   lastUpdate, cachingEnabled, cacheMutex, cachedWorkspaces,
                   workspaceCacheValid, lastWorkspaceUpdate, workspaceCacheMutex>>

\* getAllWindows(): lock_guard, return cachedWindows_ (the cached branch, and
\* the branch after updateCache())
G_Copy(t) ==
    /\ pc[t] \in {"g_hit", "g_copy"}
    /\ cacheMutex = 0
    /\ cframe' = [cframe EXCEPT ![t].list = cachedWindows]
    /\ pc' = [pc EXCEPT ![t] = IF cframe[t].op = "searchWindows" THEN "s_filter"
                                ELSE IF cframe[t].op = "refreshAllCaches" THEN "ra_ws"
                                ELSE "c_returned"]
    /\ UNCHANGED <<clock, ret, focusVars, platformVars, errorVars, filterVars, cachedWindows, cacheValid,
                   lastUpdate, cachingEnabled, cacheMutex, cachedWorkspaces,
                   workspaceCacheValid, lastWorkspaceUpdate, workspaceCacheMutex>>

\* refreshWindows(): try { updateCache(); ...
R_Call(t) ==
    /\ pc[t] = "idle"
    /\ cframe' = [cframe EXCEPT ![t] = [IdleCache EXCEPT !.op = "refreshWindows", !.at = clock]]
    /\ pc' = [pc EXCEPT ![t] = "u_lock"]
    /\ UNCHANGED <<clock, ret, focusVars, platformVars, errorVars, filterVars, cachedWindows, cacheValid,
                   lastUpdate, cachingEnabled, cacheMutex, cachedWorkspaces,
                   workspaceCacheValid, lastWorkspaceUpdate, workspaceCacheMutex>>

\* updateCache(): lock_guard lock(cacheMutex_); start = now()
U_Lock(t) ==
    /\ pc[t] = "u_lock"
    /\ cacheMutex = 0
    /\ cacheMutex' = t
    /\ cframe' = [cframe EXCEPT ![t].start = clock]
    /\ pc' = [pc EXCEPT ![t] = "u_enum"]
    /\ UNCHANGED <<clock, ret, focusVars, platformVars, errorVars, filterVars, cachedWindows, cacheValid,
                   lastUpdate, cachingEnabled, cachedWorkspaces,
                   workspaceCacheValid, lastWorkspaceUpdate, workspaceCacheMutex>>

\* updateCache(): enumerateWindows() returns or throws with the lock held; the
\* result is capped, stored and sorted, or the catch clause clears the cache;
\* then the caller's continuation: getAllWindows lets the exception pass,
\* refreshWindows turns the outcome into a bool
U_Enumerate(t) ==
    /\ pc[t] = "u_enum"
    /\ cacheMutex = t
    /\ \E outcome \in EnumerateWindowsOutcomes :
         IF outcome.kind = "return"
         THEN \E stored \in SortedByTitle(CapWindows(outcome.val)) :
                /\ cachedWindows' = stored
                /\ cacheValid' = TRUE
                /\ lastUpdate' = cframe[t].start
                /\ cframe' = [cframe EXCEPT ![t].enumerated = TRUE, ![t].fresh = stored,
                                            ![t].ok = TRUE]
                /\ pc' = [pc EXCEPT ![t] =
                       IF cframe[t].op \in {"getAllWindows", "searchWindows",
                                             "refreshAllCaches"}
                       THEN "g_copy" ELSE "c_returned"]
         ELSE /\ IF IsWindowManagerException(outcome.err)
                 THEN cacheValid' = FALSE /\ cachedWindows' = <<>>
                 ELSE UNCHANGED <<cacheValid, cachedWindows>>
              /\ UNCHANGED lastUpdate
              /\ cframe' = [cframe EXCEPT ![t].enumerated = TRUE, ![t].failed = TRUE,
                                          ![t].ok = FALSE,
                                          ![t].threw =
                                              IF cframe[t].op = "refreshWindows"
                                                 /\ IsWindowManagerException(outcome.err)
                                              THEN "" ELSE outcome.err]
              /\ pc' = [pc EXCEPT ![t] = "c_returned"]
    /\ cacheMutex' = 0
    /\ UNCHANGED <<clock, ret, focusVars, platformVars, errorVars, filterVars, cachingEnabled, cachedWorkspaces,
                   workspaceCacheValid, lastWorkspaceUpdate, workspaceCacheMutex>>

\* the caller has the result (or the exception) of its cache call
C_Return(t) ==
    /\ pc[t] = "c_returned"
    /\ ret' = Summary(cframe[t])
    /\ cframe' = [cframe EXCEPT ![t] = IdleCache]
    /\ pc' = [pc EXCEPT ![t] = "idle"]
    /\ UNCHANGED <<clock, focusVars, platformVars, errorVars, filterVars, cachedWindows, cacheValid,
                   lastUpdate, cachingEnabled, cacheMutex, cachedWorkspaces,
                   workspaceCacheValid, lastWorkspaceUpdate, workspaceCacheMutex>>

\* an invalidateCache() that empties the list and leaves cacheValid_ set
InvalidateCache_keepsValid(t) ==
    /\ pc[t] = "idle"
    /\ cacheMutex = 0
    /\ cachedWindows' = <<>>
    /\ ret' = [NoReturn EXCEPT !.op = "invalidateCache"]
    /\ UNCHANGED <<clock, pc, focusVars, platformVars, errorVars, filterVars, cacheValid, lastUpdate,
                   cachingEnabled, cacheMutex, cachedWorkspaces, workspaceCacheValid,
                   lastWorkspaceUpdate, workspaceCacheMutex, cframe>>

\* invalidateCache()
InvalidateCache(t) ==
    /\ pc[t] = "idle"
    /\ cacheMutex = 0
    /\ cacheValid' = FALSE
    /\ cachedWindows' = <<>>
    /\ ret' = [NoReturn EXCEPT !.op = "invalidateCache"]
    /\ UNCHANGED <<clock, pc, focusVars, platformVars, errorVars, filterVars, lastUpdate, cachingEnabled,
                   cacheMutex, cachedWorkspaces, workspaceCacheValid,
                   lastWorkspaceUpdate, workspaceCacheMutex, cframe>>

\* enableCaching(enabled): cachingEnabled_ = enabled; with enabled set, the
\* call ends with filter_->setCaching(true)
E_Set(t) ==
    /\ pc[t] = "idle"
    /\ \E enabled \in BOOLEAN :
         /\ cachingEnabled' = enabled
         /\ IF enabled
            THEN /\ ret' = [NoReturn EXCEPT !.op = "enableCaching"]
                 /\ filterCachingEnabled' = TRUE
                 /\ UNCHANGED <<pc, cframe>>
            ELSE /\ cframe' = [cframe EXCEPT ![t] =
                        [IdleCache EXCEPT !.op = "enableCaching", !.at = clock]]
                 /\ pc' = [pc EXCEPT ![t] = "e_inv"]
                 /\ UNCHANGED <<ret, filterCachingEnabled>>
    /\ UNCHANGED <<clock, focusVars, platformVars, errorVars, filterCache, cachedWindows, cacheValid,
                   lastUpdate, cacheMutex, cachedWorkspaces, workspaceCacheValid,
                   lastWorkspaceUpdate, workspaceCacheMutex>>

\* enableCaching(false): invalidateCache(), then filter_->setCaching(false),
\* which clears the filter's cache
E_Invalidate(t) ==
    /\ pc[t] = "e_inv"
    /\ cacheMutex = 0
    /\ cacheValid' = FALSE
    /\ cachedWindows' = <<>>
    /\ ret' = [NoReturn EXCEPT !.op = "enableCaching"]
    /\ cframe' = [cframe EXCEPT ![t] = IdleCache]
    /\ pc' = [pc EXCEPT ![t] = "idle"]
    /\ filterCachingEnabled' = FALSE
    /\ filterCache' = <<>>
    /\ UNCHANGED <<clock, focusVars, platformVars, errorVars, lastUpdate, cachingEnabled,
                   cacheMutex, cachedWorkspaces, workspaceCacheValid,
                   lastWorkspaceUpdate, workspaceCacheMutex>>

----------------------------------------------------------------------------
(* Workspace cache *)

\* getAllWorkspaces(): isWorkspaceSupported(), then cachingEnabled_ &&
\* isWorkspaceCacheValid(), read without the lock
W_Check(t) ==
    /\ pc[t] = "idle"
    /\ LET hit == cachingEnabled
                  /\ IsWorkspaceCacheValid(workspaceCacheValid, lastWorkspaceUpdate, clock)
           c == [IdleCache EXCEPT !.op = "getAllWorkspaces", !.at = clock,
                                  !.validAtCheck = workspaceCacheValid,
                                  !.ageAtCheck = clock - lastWorkspaceUpdate]
       IN IF ~workspaceSupported
          THEN /\ cframe' = [cframe EXCEPT ![t] = [c EXCEPT !.list = DefaultWorkspaces]]
               /\ pc' = [pc EXCEPT ![t] = "c_returned"]
          ELSE /\ cframe' = [cframe EXCEPT ![t] = c]
               /\ pc' = [pc EXCEPT ![t] = IF hit THEN "w_hit" ELSE "wu_lock"]
    /\ UNCHANGED <<clock, ret, focusVars, platformVars, errorVars, filterVars, cachedWindows, cacheValid,
                   lastUpdate, cachingEnabled, cacheMutex, cachedWorkspaces,
                   workspaceCacheValid, lastWorkspaceUpdate, workspaceCacheMutex>>

\* getAllWorkspaces(): lock_guard, return cachedWorkspaces_
W_Copy(t) ==
    /\ pc[t] \in {"w_hit", "w_copy"}
    /\ workspaceCacheMutex = 0
    /\ cframe' = [cframe EXCEPT ![t].list = cachedWorkspaces]
    /\ pc' = [pc EXCEPT ![t] = "c_returned"]
    /\ UNCHANGED <<clock, ret, focusVars, platformVars, errorVars, filterVars, cachedWindows, cacheValid,
                   lastUpdate, cachingEnabled, cacheMutex, cachedWorkspaces,
                   workspaceCacheValid, lastWorkspaceUpdate, workspaceCacheMutex>>

\* updateWorkspaceCache(): lock_guard lock(workspaceCacheMutex_); start = now()
WU_Lock(t) ==
    /\ pc[t] = "wu_lock"
    /\ workspaceCacheMutex = 0
    /\ workspaceCacheMutex' = t
    /\ cframe' = [cframe EXCEPT ![t].start = clock]
    /\ pc' = [pc EXCEPT ![t] = "wu_enum"]
    /\ UNCHANGED <<clock, ret, focusVars, platformVars, errorVars, filterVars, cachedWindows, cacheValid,
                   lastUpdate, cachingEnabled, cacheMutex, cachedWorkspaces,
                   workspaceCacheValid, lastWorkspaceUpdate>>

\* updateWorkspaceCache(): enumerateWorkspaces() returns or throws with the lock
\* held
WU_Enumerate(t) ==
    /\ pc[t] = "wu_enum"
    /\ workspaceCacheMutex = t
    /\ \E outcome \in EnumerateWorkspacesOutcomes :
         IF outcome.kind = "return"
         THEN /\ cachedWorkspaces' = outcome.val
              /\ workspaceCacheValid' = TRUE
              /\ lastWorkspaceUpdate' = cframe[t].start
              /\ cframe' = [cframe EXCEPT ![t].enumerated = TRUE, ![t].fresh = outcome.val,
                                          ![t].ok = TRUE]
              /\ pc' = [pc EXCEPT ![t] = "w_copy"]
         ELSE /\ IF IsWindowManagerException(outcome.err)
                 THEN workspaceCacheValid' = FALSE /\ cachedWorkspaces' = <<>>
                 ELSE UNCHANGED <<workspaceCacheValid, cachedWorkspaces>>
              /\ UNCHANGED lastWorkspaceUpdate
              /\ cframe' = [cframe EXCEPT ![t].enumerated = TRUE, ![t].failed = TRUE,
                                          ![t].threw = outcome.err]
              /\ pc' = [pc EXCEPT ![t] = "c_returned"]
    /\ workspaceCacheMutex' = 0
    /\ UNCHANGED <<clock, ret, focusVars, platformVars, errorVars, filterVars, cachedWindows, cacheValid,
                   lastUpdate, cachingEnabled, cacheMutex>>

\* invalidateWorkspaceCache()
InvalidateWorkspaceCache(t) ==
    /\ pc[t] = "idle"
    /\ workspaceCacheMutex = 0
    /\ workspaceCacheValid' = FALSE
    /\ cachedWorkspaces' = <<>>
    /\ ret' = [NoReturn EXCEPT !.op = "invalidateWorkspaceCache"]
    /\ UNCHANGED <<clock, pc, focusVars, platformVars, errorVars, filterVars, cachedWindows, cacheValid,
                   lastUpdate, cachingEnabled, cacheMutex, lastWorkspaceUpdate,
                   workspaceCacheMutex, cframe>>

----------------------------------------------------------------------------
(* refreshAllCaches, getPerformanceMetrics *)

\* a refreshAllCaches() that takes cacheMutex_ for the whole refresh instead
\* of the scope of invalidateCache()
RA_Call_keepsLock(t) ==
    /\ pc[t] = "idle"
    /\ cacheMutex = 0
    /\ cacheMutex' = t
    /\ cacheValid' = FALSE
    /\ cachedWindows' = <<>>
    /\ cframe' = [cframe EXCEPT ![t] = [IdleCache EXCEPT !.op = "refreshAllCaches", !.at = clock]]
    /\ pc' = [pc EXCEPT ![t] = "ra_invw"]
    /\ UNCHANGED <<clock, ret, focusVars, platformVars, errorVars, filterVars, lastUpdate,
                   cachingEnabled, cachedWorkspaces, workspaceCacheValid,
                   lastWorkspaceUpdate, workspaceCacheMutex>>

\* refreshAllCaches(): invalidateCache(), whose lock_guard ends with it
RA_Call(t) ==
    /\ pc[t] = "idle"
    /\ cacheMutex = 0
    /\ cacheValid' = FALSE
    /\ cachedWindows' = <<>>
    /\ cframe' = [cframe EXCEPT ![t] = [IdleCache EXCEPT !.op = "refreshAllCaches", !.at = clock]]
    /\ pc' = [pc EXCEPT ![t] = "ra_invw"]
    /\ UNCHANGED <<clock, ret, focusVars, platformVars, errorVars, filterVars, lastUpdate,
                   cachingEnabled, cacheMutex, cachedWorkspaces, workspaceCacheValid,
                   lastWorkspaceUpdate, workspaceCacheMutex>>

\* refreshAllCaches(): invalidateWorkspaceCache()
RA_InvalidateWorkspace(t) ==
    /\ pc[t] = "ra_invw"
    /\ workspaceCacheMutex = 0
    /\ workspaceCacheValid' = FALSE
    /\ cachedWorkspaces' = <<>>
    /\ pc' = [pc EXCEPT ![t] = "ra_win"]
    /\ UNCHANGED <<clock, ret, focusVars, platformVars, errorVars, filterVars, cachedWindows,
                   cacheValid, lastUpdate, cachingEnabled, cacheMutex, lastWorkspaceUpdate,
                   workspaceCacheMutex, cframe>>

\* refreshAllCaches(): getAllWindows(), whose first step is the test
\* cachingEnabled_ && isCacheValid(); another caller may have refilled the
\* cache since the invalidation
RA_Windows(t) ==
    /\ pc[t] = "ra_win"
    /\ LET hit == cachingEnabled /\ IsCacheValid(cacheValid, lastUpdate, clock)
       IN /\ cframe' = [cframe EXCEPT ![t].validAtCheck = cacheValid,
                                      ![t].ageAtCheck = clock - lastUpdate]
          /\ pc' = [pc EXCEPT ![t] = IF hit THEN "g_hit" ELSE "u_lock"]
    /\ UNCHANGED <<clock, ret, focusVars, platformVars, errorVars, filterVars, cachedWindows, cacheValid,
                   lastUpdate, cachingEnabled, cacheMutex, cachedWorkspaces,
                   workspaceCacheValid, lastWorkspaceUpdate, workspaceCacheMutex>>

\* refreshAllCaches(): getAllWorkspaces(), the windows returned before it
\* dropped; its first steps are isWorkspaceSupported() and the test
\* cachingEnabled_ && isWorkspaceCacheValid()
RA_Workspaces(t) ==
    /\ pc[t] = "ra_ws"
    /\ LET hit == cachingEnabled
                  /\ IsWorkspaceCacheValid(workspaceCacheValid, lastWorkspaceUpdate, clock)
       IN /\ cframe' = [cframe EXCEPT ![t].list = <<>>,
                                      ![t].validAtCheck = workspaceCacheValid,
                                      ![t].ageAtCheck = clock - lastWorkspaceUpdate]
          /\ pc' = [pc EXCEPT ![t] = IF ~workspaceSupported THEN "c_returned"
                                      ELSE IF hit THEN "w_hit" ELSE "wu_lock"]
    /\ UNCHANGED <<clock, ret, focusVars, platformVars, errorVars, filterVars, cachedWindows, cacheValid,
                   lastUpdate, cachingEnabled, cacheMutex, cachedWorkspaces,
                   workspaceCacheValid, lastWorkspaceUpdate, workspaceCacheMutex>>

\* getPerformanceMetrics(): metrics.totalWindowCount = getTotalWindowCount(),
\* which reads cachedWindows_.size() without a lock: while another caller is
\* inside updateCache() the read races with its writes, and the size of the
\* list before the write, of the list being stored or of the cleared list comes
\* back
PM_Call(t) ==
    /\ pc[t] = "idle"
    /\ \E count \in IF cacheMutex = 0 THEN {Len(cachedWindows)}
                    ELSE {Len(cachedWindows), Len(CapWindows(sysWindows)), 0} :
         cframe' = [cframe EXCEPT ![t] =
             [IdleCache EXCEPT !.op = "getPerformanceMetrics", !.at = clock,
                               !.metrics = [NoMetrics EXCEPT !.totalWindowCount = count]]]
    /\ pc' = [pc EXCEPT ![t] = "pm_count"]
    /\ UNCHANGED <<clock, ret, focusVars, platformVars, errorVars, filterVars, cachedWindows, cacheValid,
                   lastUpdate, cachingEnabled, cacheMutex, cachedWorkspaces,
                   workspaceCacheValid, lastWorkspaceUpdate, workspaceCacheMutex>>

\* getPerformanceMetrics(): metrics.totalWorkspaceCount = getWorkspaceCount()
\* under workspaceCacheMutex_, then isCacheValid() and isWorkspaceCacheValid()
PM_Count(t) ==
    /\ pc[t] = "pm_count"
    /\ workspaceCacheMutex = 0
    /\ cframe' = [cframe EXCEPT ![t].metrics =
           [@ EXCEPT !.totalWorkspaceCount = Len(cachedWorkspaces),
                     !.windowCacheValid = IsCacheValid(cacheValid, lastUpdate, clock),
                     !.workspaceCacheValid =
                         IsWorkspaceCacheValid(workspaceCacheValid, lastWorkspaceUpdate, clock)],
                                   ![t].ok = TRUE]
    /\ pc' = [pc EXCEPT ![t] = "c_returned"]
    /\ UNCHANGED <<clock, ret, focusVars, platformVars, errorVars, filterVars, cachedWindows, cacheValid,
                   lastUpdate, cachingEnabled, cacheMutex, cachedWorkspaces,
                   workspaceCacheValid, lastWorkspaceUpdate, workspaceCacheMutex>>

----------------------------------------------------------------------------
(* Search (window_manager.cpp, filter.cpp) *)

\* searchWindows(query): auto windows = getAllWindows(), whose first step is
\* the test cachingEnabled_ && isCacheValid()
S_Call(t) ==
    /\ pc[t] = "idle"
    /\ calls < MaxSearchCalls
    /\ \E query \in SearchQueries :
         LET hit == cachingEnabled /\ IsCacheValid(cacheValid, lastUpdate, clock)
         IN /\ cframe' = [cframe EXCEPT ![t] =
                  [IdleCache EXCEPT !.op = "searchWindows", !.at = clock,
                                    !.validAtCheck = cacheValid,
                                    !.ageAtCheck = clock - lastUpdate,
                                    !.query = query]]
            /\ pc' = [pc EXCEPT ![t] = IF hit THEN "g_hit" ELSE "u_lock"]
    /\ calls' = calls + 1
    /\ UNCHANGED <<clock, ret, focusRequestTimes, focusHistory, appendLog, frame, acceptTimes, recordTimes,
                   platformVars, errorVars, filterVars, cachedWindows, cacheValid, lastUpdate,
                   cachingEnabled, cacheMutex, cachedWorkspaces, workspaceCacheValid,
                   lastWorkspaceUpdate, workspaceCacheMutex>>

\* searchWindows(query): return filter_->filter(windows, query).  The filter
\* answers from cache_ when it holds the key, else runs performFilter and
\* stores the result under the key
S_Filter(t) ==
    /\ pc[t] = "s_filter"
    /\ LET windows == cframe[t].list
           query == cframe[t].query
           cacheKey == generateCacheKey(windows, query)
       IN IF filterCachingEnabled /\ cacheKey \in DOMAIN filterCache
          THEN /\ cframe' = [cframe EXCEPT ![t].result = filterCache[cacheKey],
                                           ![t].built = "filter", ![t].cached = TRUE]
               /\ UNCHANGED filterCache
          ELSE \E result \in performFilter(windows, query) :
                 /\ cframe' = [cframe EXCEPT ![t].result = result, ![t].built = "filter"]
                 /\ filterCache' =
                        IF filterCachingEnabled
                        THEN [key \in DOMAIN filterCache \cup {cacheKey} |->
                                 IF key = cacheKey THEN result ELSE filterCache[key]]
                        ELSE filterCache
    /\ pc' = [pc EXCEPT ![t] = "c_returned"]
    /\ UNCHANGED <<clock, ret, focusVars, platformVars, errorVars, filterCachingEnabled,
                   cachedWindows, cacheValid, lastUpdate, cachingEnabled, cacheMutex,
                   cachedWorkspaces, workspaceCacheValid, lastWorkspaceUpdate,
                   workspaceCacheMutex>>

\* a caller builds a FilterResult without going through the caches
Build(t, operation, result) ==
    /\ pc[t] = "idle"
    /\ calls < MaxSearchCalls
    /\ cframe' = [cframe EXCEPT ![t] =
          [IdleCache EXCEPT !.op = operation, !.at = clock, !.result = result,
                            !.built = operation]]
    /\ pc' = [pc EXCEPT ![t] = "c_returned"]
    /\ calls' = calls + 1
    /\ UNCHANGED <<clock, ret, focusRequestTimes, focusHistory, appendLog, frame, acceptTimes, recordTimes,
                   platformVars, errorVars, filterVars, cachedWindows, cacheValid, lastUpdate,
                   cachingEnabled, cacheMutex, cachedWorkspaces, workspaceCacheValid,
                   lastWorkspaceUpdate, workspaceCacheMutex>>

\* window.toJson() called by a caller
ToJson(t) ==
    \E window \in WindowInfos :
        /\ pc[t] = "idle"
        /\ calls < MaxSearchCalls
        /\ cframe' = [cframe EXCEPT ![t] =
              [IdleCache EXCEPT !.op = "toJson", !.at = clock, !.window = window,
                                !.json = toJson(window)]]
        /\ pc' = [pc EXCEPT ![t] = "c_returned"]
        /\ calls' = calls + 1
        /\ UNCHANGED <<clock, ret, focusRequestTimes, focusHistory, appendLog, frame, acceptTimes, recordTimes,
                       platformVars, errorVars, filterVars, cachedWindows, cacheValid,
                       lastUpdate, cachingEnabled, cacheMutex, cachedWorkspaces,
                       workspaceCacheValid, lastWorkspaceUpdate, workspaceCacheMutex>>

\* the window lists handed to the filter directly
WindowInputs == {<<>>} \cup SysWindowLists

\* filter_->filterVisible(windows)
FV_Call(t) ==
    \E windows \in WindowInputs : Build(t, "filterVisible", filterVisible(windows))

\* filter_->filterWithWorkspaces(windows, query, workspaces)
FW_Call(t) ==
    \E windows \in WindowInputs, query \in SearchQueries, workspaces \in SysWorkspaceLists :
        \E result \in filterWithWorkspaces(windows, query, workspaces) :
            Build(t, "filterWithWorkspaces", result)

\* getEmptyResult(query)
GE_Call(t) ==
    \E query \in SearchQueries : Build(t, "getEmptyResult", getEmptyResult(query))

\* FilterResult(windows, total, query, time) written by a caller
FR_New(t) ==
    \E windows \in WindowInputs, total \in 0 .. MaxTotalCount :
        Build(t, "FilterResult", FilterResult(windows, total, EmptyQuery, <<>>))

\* FilterResult result; written by a caller
FR_Default(t) ==
    \E result \in DefaultFilterResults(0 .. MaxTotalCount) : Build(t, "default", result)

----------------------------------------------------------------------------
(* Error recovery (exceptions.cpp) *)

\* an exception object: its most derived class and, for WorkspaceException and
\* its subclass, the canDegrade_ member (written TRUE for the other classes,
\* which have none)
Exception(kind, canDegrade) == [kind |-> kind, canDegrade |-> canDegrade]

\* the exceptions the constructors can build: WorkspaceException(details,
\* canDegrade) with either flag, WorkspaceSwitchException always with
\* canDegrade false, and an exception outside the taxonomy
Exceptions ==
    {Exception(kind, TRUE) : kind \in ErrorKinds \ {"Workspace", "WorkspaceSwitch"}}
    \cup {Exception("Workspace", canDegrade) : canDegrade \in BOOLEAN}
    \cup {Exception("WorkspaceSwitch", FALSE), Exception("std::exception", TRUE)}

NoException == Exception(None, TRUE)
NotAssessed == [severity |-> None, canRecover |-> None, strategy |-> None]

\* a dynamic_cast that succeeds only for the most derived class
IsA_exact(e, class) == e.kind = class

\* dynamic_cast<const class*>(&e) != nullptr: WorkspaceSwitchException derives
\* from WorkspaceException, every other class directly from
\* WindowManagerException
IsA(e, class) ==
    \/ e.kind = class
    \/ class = "Workspace" /\ e.kind = "WorkspaceSwitch"

\* ErrorRecovery::assessSeverity(e)
assessSeverity(e) ==
    IF IsA(e, "PerformanceWarning") THEN "Warning"
    ELSE IF IsA(e, "Workspace") THEN (IF e.canDegrade THEN "Recoverable" ELSE "Critical")
    ELSE IF IsA(e, "PlatformNotSupported") THEN "Critical"
    ELSE IF IsA(e, "PermissionDenied") THEN "Recoverable"
    ELSE IF IsA(e, "Filter") THEN "Recoverable"
    ELSE IF IsA(e, "InvalidHandle") THEN "Recoverable"
    ELSE IF IsA(e, "Focus") THEN "Recoverable"
    ELSE IF IsA(e, "WorkspaceSwitch") THEN "Recoverable"
    ELSE "Recoverable"

\* ErrorRecovery::canRecover(e)
canRecover(e) == assessSeverity(e) # "Critical"

\* ErrorRecovery::recommendStrategy(e)
recommendStrategy(e) ==
    IF IsA(e, "PermissionDenied") THEN "UseLimitedData"
    ELSE IF IsA(e, "Workspace") THEN "RetryWithSimpler"
    ELSE IF IsA(e, "PerformanceWarning") THEN "UseCache"
    ELSE IF IsA(e, "WindowEnumeration") THEN "UseCache"
    ELSE IF IsA(e, "InvalidHandle") THEN "ReturnEmpty"
    ELSE IF IsA(e, "Focus") THEN "RetryWithSimpler"
    ELSE IF IsA(e, "WorkspaceSwitch") THEN "RetryWithSimpler"
    ELSE "ReturnEmpty"

\* a caller catches an exception of the library
Catch ==
    /\ caught' \in Exceptions
    /\ assessed' = NotAssessed
    /\ UNCHANGED <<clock, pc, ret, focusVars, cacheVars, platformVars, filterVars>>

\* ErrorRecovery::assessSeverity(caught)
AssessSeverity ==
    /\ caught # NoException
    /\ assessed' = [assessed EXCEPT !.severity = assessSeverity(caught)]
    /\ UNCHANGED <<clock, pc, ret, focusVars, cacheVars, platformVars, filterVars, caught>>

\* ErrorRecovery::canRecover(caught)
CanRecover ==
    /\ caught # NoException
    /\ assessed' = [assessed EXCEPT !.canRecover = IF canRecover(caught) THEN "true" ELSE "false"]
    /\ UNCHANGED <<clock, pc, ret, focusVars, cacheVars, platformVars, filterVars, caught>>

\* ErrorRecovery::recommendStrategy(caught)
RecommendStrategy ==
    /\ caught # NoException
    /\ assessed' = [assessed EXCEPT !.strategy = recommendStrategy(caught)]
    /\ UNCHANGED <<clock, pc, ret, focusVars, cacheVars, platformVars, filterVars, caught>>

----------------------------------------------------------------------------
(* Specifications *)

vars == <<clock, pc, ret, focusVars, cacheVars, platformVars, filterVars, errorVars>>

\* the state of a Facade with the injected Enumerator e whose focus history
\* holds the operations of earlier calls
InitFrom(e, history) ==
    /\ clock = 0
    /\ enumerator = e
    /\ focusRequestTimes = <<>>
    /\ focusHistory = history
    /\ appendLog = history
    /\ pc = [t \in Callers |-> "idle"]
    /\ frame = [t \in Callers |-> IdleFrame]
    /\ calls = 0
    /\ acceptTimes = <<>>
    /\ recordTimes = <<>>
    /\ ret = NoReturn
    /\ cachedWindows = <<>>
    /\ cacheValid = FALSE
    /\ lastUpdate = 0
    /\ cachingEnabled = TRUE
    /\ cacheMutex = 0
    /\ cachedWorkspaces = <<>>
    /\ workspaceCacheValid = FALSE
    /\ lastWorkspaceUpdate = 0
    /\ workspaceCacheMutex = 0
    /\ cframe = [t \in Callers |-> IdleCache]
    /\ sysWindows = <<WinB, WinA>>
    /\ sysWorkspaces \in SysWorkspaceLists
    /\ workspaceSupported \in BOOLEAN
    /\ filterCache = <<>>
    /\ filterCachingEnabled = TRUE
    /\ caught = NoException
    /\ assessed = NotAssessed

\* the state after construction, with the injected Enumerator e
InitWith(e) == InitFrom(e, <<>>)

RateStep(t) ==
    \/ F_Call(t)
    \/ F_Record(t)
    \/ F_Validate(t)
    \/ F_GetInfo(t)
    \/ F_FocusCurrent(t)
    \/ F_AddHistory(t)
    \/ F_Return(t)

FocusStep(t) ==
    \/ RateStep(t)
    \/ F_Join(t)
    \/ A_GetInfo(t)
    \/ A_CanSwitch(t)
    \/ A_Switch(t)
    \/ A_Focus(t)

WindowCacheStep(t) ==
    \/ G_Check(t)
    \/ G_Copy(t)
    \/ R_Call(t)
    \/ U_Lock(t)
    \/ U_Enumerate(t)
    \/ C_Return(t)
    \/ InvalidateCache(t)

CacheStep(t) ==
    \/ WindowCacheStep(t)
    \/ E_Set(t)
    \/ E_Invalidate(t)
    \/ W_Check(t)
    \/ W_Copy(t)
    \/ WU_Lock(t)
    \/ WU_Enumerate(t)
    \/ InvalidateWorkspaceCache(t)

\* one caller focusing windows of an arbitrary platform
InitFocus == InitWith("Platform") /\ workspaceSupported
NextFocus == Tick(Upto(MaxRaceClock)) \/ \E t \in SingleCaller : FocusStep(t)
SpecFocus == InitFocus /\ [][NextFocus]_vars

\* one caller issuing rapid focus requests on a steady platform
InitRate == InitWith("Steady") /\ workspaceSupported
NextRate1 == Tick(Upto(MaxClock)) \/ \E t \in SingleCaller : RateStep(t)
SpecRate1 == InitRate /\ [][NextRate1]_vars

\* one caller issuing rapid focus requests for windows that are there, or
\* for windows that are gone
InitLimiter == (InitWith("Steady") \/ InitWith("Absent")) /\ workspaceSupported
SpecLimiter == InitLimiter /\ [][NextRate1]_vars

\* one caller making focus requests and clearing the history of a Facade
\* whose history is empty, nearly full or full
HistoryStep(t) ==
    \/ calls < MaxHistoryCalls /\ F_Call(t)
    \/ F_Record(t)
    \/ F_Validate(t)
    \/ F_GetInfo(t)
    \/ F_FocusCurrent(t)
    \/ F_AddHistory(t)
    \/ F_Return(t)
    \/ ClearFocusHistory(t)
InitHistory ==
    /\ \E n \in HistoryFills : InitFrom("Steady", EarlierHistory(n))
    /\ workspaceSupported
NextHistory == Tick(Upto(MaxRaceClock)) \/ \E t \in SingleCaller : HistoryStep(t)
SpecHistory == InitHistory /\ [][NextHistory]_vars

\* several threads issuing focus requests on a steady platform
NextRate == Tick(Upto(MaxRaceClock)) \/ \E t \in Callers : RateStep(t)
SpecRate == InitRate /\ [][NextRate]_vars

\* one caller using the caches on a platform backend whose enumerations can fail
InitCache == InitWith("Native")
NextCache1 == Tick(CacheInstants) \/ SysChange \/ \E t \in SingleCaller : CacheStep(t)
SpecCache1 == InitCache /\ [][NextCache1]_vars

\* several threads using the window cache of a platform that never fails
InitCacheRace == InitWith("Steady") /\ workspaceSupported
NextCacheRace == Tick(Upto(MaxRaceClock)) \/ SysChange \/ \E t \in Callers : WindowCacheStep(t)
SpecCacheRace == InitCacheRace /\ [][NextCacheRace]_vars

\* several threads mixing focus requests, history clearing, reads, refreshes
\* and invalidations of the two caches, refreshAllCaches and
\* getPerformanceMetrics on a platform backend whose enumerations can fail
LockStep(t) ==
    \/ calls < MaxLockCalls /\ F_Call(t)
    \/ F_Record(t)
    \/ F_Validate(t)
    \/ F_GetInfo(t)
    \/ F_FocusCurrent(t)
    \/ F_AddHistory(t)
    \/ F_Return(t)
    \/ ClearFocusHistory(t)
    \/ G_Check(t)
    \/ G_Copy(t)
    \/ R_Call(t)
    \/ U_Lock(t)
    \/ U_Enumerate(t)
    \/ InvalidateCache(t)
    \/ W_Check(t)
    \/ W_Copy(t)
    \/ WU_Lock(t)
    \/ WU_Enumerate(t)
    \/ InvalidateWorkspaceCache(t)
    \/ C_Return(t)
    \/ RA_Call(t)
    \/ RA_InvalidateWorkspace(t)
    \/ RA_Windows(t)
    \/ RA_Workspaces(t)
    \/ PM_Call(t)
    \/ PM_Count(t)

InitLocks == InitWith("Native") /\ workspaceSupported
NextLocks == \E t \in Callers : LockStep(t)
SpecLocks == InitLocks /\ [][NextLocks]_vars

\* one caller using the soft entry points of an arbitrary platform, at one
\* reading of the clock
SoftStep(t) ==
    \/ FocusStep(t)
    \/ ValidateHandle(t)
    \/ R_Call(t)
    \/ U_Lock(t)
    \/ U_Enumerate(t)
    \/ C_Return(t)
NextSoft == \E t \in SingleCaller : SoftStep(t)
SpecSoft == InitFocus /\ [][NextSoft]_vars

\* one caller searching and listing windows while the desktop changes
SearchStep(t) ==
    \/ WindowCacheStep(t)
    \/ E_Set(t)
    \/ E_Invalidate(t)
    \/ S_Call(t)
    \/ S_Filter(t)
InitSearch == InitWith("Shifting") /\ workspaceSupported
NextSearch == SysChange \/ \E t \in SingleCaller : SearchStep(t)
SpecSearch == InitSearch /\ [][NextSearch]_vars

\* one caller building FilterResults: by searchWindows, by the filter's other
\* operations, by getEmptyResult and by the constructors
ResultStep(t) ==
    \/ S_Call(t)
    \/ G_Copy(t)
    \/ U_Lock(t)
    \/ U_Enumerate(t)
    \/ S_Filter(t)
    \/ C_Return(t)
    \/ FV_Call(t)
    \/ FW_Call(t)
    \/ GE_Call(t)
    \/ FR_New(t)
    \/ FR_Default(t)
NextResult == \E t \in SingleCaller : ResultStep(t)
SpecResult == InitSearch /\ [][NextResult]_vars

\* one caller listing the workspaces of a platform that detects them from
\* its windows
WorkspaceStep(t) ==
    \/ W_Check(t)
    \/ W_Copy(t)
    \/ WU_Lock(t)
    \/ WU_Enumerate(t)
    \/ C_Return(t)
    \/ InvalidateWorkspaceCache(t)
InitWorkspaces == InitWith("Detecting")
NextWorkspaces ==
    Tick(CacheInstants) \/ SysChange \/ \E t \in SingleCaller : WorkspaceStep(t)
SpecWorkspaces == InitWorkspaces /\ [][NextWorkspaces]_vars

\* a caller catching exceptions and asking ErrorRecovery about each
NextErrors == Catch \/ AssessSeverity \/ CanRecover \/ RecommendStrategy
SpecErrors == InitSearch /\ [][NextErrors]_vars

\* one caller writing the wire records of windows
NextWire == \E t \in SingleCaller : ToJson(t) \/ C_Return(t)
SpecWire == InitSearch /\ [][NextWire]_vars

----------------------------------------------------------------------------
(* Focus: rate limiting and history *)

\* C1: for a single caller, a focusWindowByHandle call made when 10 calls have
\* already been accepted less than one second earlier is rejected: it returns
\* false and has made no call into the Enumerator
C1_RejectedAfterTen ==
    \A t \in SingleCaller :
        (pc[t] # "idle" /\ frame[t].prior >= MAX_FOCUS_REQUESTS_PER_SECOND)
            => /\ pc[t] = "returned"
               /\ ~frame[t].accepted
               /\ ~frame[t].result
               /\ frame[t].enumCalls = <<>>
               /\ frame[t].appended = <<>>

\* an eleventh call inside the second of ten accepted ones has returned
C1_Witness ==
    /\ pc[1] = "returned"
    /\ frame[1].prior = MAX_FOCUS_REQUESTS_PER_SECOND
    /\ ~frame[1].result
    /\ Len(acceptTimes) = MAX_FOCUS_REQUESTS_PER_SECOND

\* C2: under every interleaving of concurrent focusWindowByHandle calls, at
\* most 10 calls are accepted by the rate limiter within any window of one
\* second
C2_AtMostTenPerWindow ==
    \A i \in DOMAIN acceptTimes :
        Cardinality({j \in DOMAIN acceptTimes :
                        /\ acceptTimes[i] <= acceptTimes[j]
                        /\ acceptTimes[j] < acceptTimes[i] + RATE_LIMIT_WINDOW * TicksPerSecond})
            <= MAX_FOCUS_REQUESTS_PER_SECOND

C4_OneTerminalOperation ==
    \A t \in SingleCaller :
        (pc[t] = "returned" /\ frame[t].accepted)
            => /\ Len(frame[t].appended) = 1
               /\ Len(focusHistory) > 0
               /\ focusHistory[Len(focusHistory)] = frame[t].appended[1]
               /\ frame[t].appended[1].status \in {"COMPLETED", "FAILED"}
               /\ frame[t].result <=> (frame[t].appended[1].status = "COMPLETED")

\* an accepted call has returned false after the Enumerator threw
C4_Witness ==
    /\ pc[1] = "returned"
    /\ frame[1].accepted
    /\ frame[1].enumThrew
    /\ ~frame[1].result
    /\ frame[1].appended[1].status = "FAILED"

----------------------------------------------------------------------------
(* Caches *)

\* C5: under every interleaving of getAllWindows, refreshWindows and
\* invalidateCache from several threads, with an Enumerator that never fails,
\* every list getAllWindows returns is the capped, title-sorted result of an
\* enumeration, never the emptied list of a concurrent invalidateCache
C5_ReturnsAnEnumeration ==
    \A t \in Callers :
        (pc[t] = "c_returned" /\ cframe[t].op = "getAllWindows")
            => \E windows \in SysWindowLists :
                   cframe[t].list \in SortedByTitle(CapWindows(windows))

\* C6: with caching enabled, a getAllWindows call made less than 5 seconds
\* after the previous getAllWindows call, with no other Facade call between
\* them, does not invoke enumerateWindows and returns the same list
C6_TwoCallsWithinTtl ==
    \A t \in SingleCaller :
        (/\ pc[t] = "c_returned" /\ cframe[t].op = "getAllWindows"
         /\ ret.op = "getAllWindows" /\ ret.threw = ""
         /\ cachingEnabled
         /\ (cframe[t].at - ret.at) \div TicksPerSecond < CACHE_VALIDITY_DURATION)
            => (~cframe[t].enumerated /\ cframe[t].list = ret.list)

\* C6 amended: with caching enabled, a getAllWindows call made less than 5
\* seconds after the start of the enumeration that produced the list of the
\* previous getAllWindows call, with no other Facade call between them, does
\* not invoke enumerateWindows and returns the same list
C6_WithinTtlOfTheFill ==
    \A t \in SingleCaller :
        (/\ pc[t] = "c_returned" /\ cframe[t].op = "getAllWindows"
         /\ ret.op = "getAllWindows" /\ ret.threw = ""
         /\ cachingEnabled
         /\ cframe[t].ageAtCheck \div TicksPerSecond < CACHE_VALIDITY_DURATION)
            => (~cframe[t].enumerated /\ cframe[t].list = ret.list)

\* the second of two such calls has returned the cached list although the
\* platform's windows have changed since
C6_Witness ==
    /\ pc[1] = "c_returned" /\ cframe[1].op = "getAllWindows"
    /\ ret.op = "getAllWindows" /\ ret.threw = ""
    /\ cachingEnabled
    /\ cframe[1].ageAtCheck \div TicksPerSecond = CACHE_VALIDITY_DURATION - 1
    /\ ~cframe[1].enumerated
    /\ cframe[1].list = ret.list
    /\ cframe[1].list \notin SortedByTitle(CapWindows(sysWindows))

\* C7: getAllWindows returns without enumerating only if caching is enabled,
\* the cache was valid and less than 5 seconds had passed since the start of
\* the enumeration that filled it; otherwise it calls enumerateWindows and
\* returns what that call stored.  getAllWorkspaces does the same with 10
\* seconds on a platform that supports workspaces
C7_ServedOnlyWithinTtl ==
    \A t \in SingleCaller :
        /\ (pc[t] = "c_returned" /\ cframe[t].op = "getAllWindows")
              => /\ ~cframe[t].enumerated
                     => /\ cachingEnabled /\ cframe[t].validAtCheck
                        /\ cframe[t].ageAtCheck \div TicksPerSecond < CACHE_VALIDITY_DURATION
                 /\ (cframe[t].enumerated /\ cframe[t].threw = "")
                     => cframe[t].list = cframe[t].fresh
        /\ (pc[t] = "c_returned" /\ cframe[t].op = "getAllWorkspaces" /\ workspaceSupported)
              => /\ ~cframe[t].enumerated
                     => /\ cachingEnabled /\ cframe[t].validAtCheck
                        /\ cframe[t].ageAtCheck \div TicksPerSecond
                               < WORKSPACE_CACHE_VALIDITY_DURATION
                 /\ (cframe[t].enumerated /\ cframe[t].threw = "")
                     => cframe[t].list = cframe[t].fresh

\* getAllWindows has found a valid cache exactly 5 seconds old, has enumerated
\* and returns the fresh list
C7_Witness ==
    /\ pc[1] = "c_returned" /\ cframe[1].op = "getAllWindows"
    /\ cachingEnabled /\ cframe[1].validAtCheck
    /\ cframe[1].ageAtCheck \div TicksPerSecond = CACHE_VALIDITY_DURATION
    /\ cframe[1].enumerated
    /\ cframe[1].list = cframe[1].fresh
    /\ cframe[1].list # <<>>

\* C8: the getAllWindows call that follows invalidateCache invokes
\* enumerateWindows, however recently the cache was filled; the
\* getAllWorkspaces call that follows invalidateWorkspaceCache invokes
\* enumerateWorkspaces on a platform that supports workspaces
C8_InvalidateForcesRefetch ==
    \A t \in SingleCaller :
        /\ (pc[t] = "c_returned" /\ cframe[t].op = "getAllWindows"
            /\ ret.op = "invalidateCache")
              => cframe[t].enumerated
        /\ (pc[t] = "c_returned" /\ cframe[t].op = "getAllWorkspaces"
            /\ ret.op = "invalidateWorkspaceCache" /\ workspaceSupported)
              => cframe[t].enumerated

\* getAllWindows has enumerated after an invalidateCache that came in the same
\* second as the last fill of the cache
C8_Witness ==
    /\ pc[1] = "c_returned" /\ cframe[1].op = "getAllWindows"
    /\ ret.op = "invalidateCache"
    /\ cachingEnabled
    /\ cframe[1].at > 0 /\ cframe[1].ageAtCheck = 0
    /\ cframe[1].enumerated

\* C9: when enumerateWindows fails during getAllWindows or refreshWindows, the
\* window cache is empty and invalid when the call returns, getAllWindows
\* passes the exception on and refreshWindows returns false; the getAllWindows
\* call that follows enumerates again
C9_FailureClearsCache ==
    \A t \in SingleCaller :
        /\ (pc[t] = "c_returned" /\ cframe[t].op \in {"getAllWindows", "refreshWindows"}
            /\ cframe[t].failed)
              => /\ cachedWindows = <<>> /\ ~cacheValid
                 /\ cframe[t].op = "getAllWindows" => cframe[t].threw # ""
                 /\ cframe[t].op = "refreshWindows"
                        => (cframe[t].threw = "" /\ ~cframe[t].ok)
        /\ (pc[t] = "c_returned" /\ cframe[t].op = "getAllWindows"
            /\ ret.op \in {"getAllWindows", "refreshWindows"} /\ ret.failed)
              => cframe[t].enumerated

\* refreshWindows has failed right after getAllWindows returned a list, and
\* the list is gone from the cache
C9_Witness ==
    /\ pc[1] = "c_returned" /\ cframe[1].op = "refreshWindows"
    /\ cframe[1].failed /\ ~cframe[1].ok
    /\ ret.op = "getAllWindows" /\ ret.list # <<>>
    /\ cachedWindows = <<>> /\ ~cacheValid

\* C10: no exception of the Enumerator, of any class of the taxonomy, leaves
\* refreshWindows, focusWindowByHandle, validateHandle or
\* validateHandleWithTimeout: the call returns false
C10_SoftEntryPointsReturnFalse ==
    /\ \A t \in SingleCaller :
          /\ (pc[t] = "c_returned" /\ cframe[t].op = "refreshWindows" /\ cframe[t].failed)
                => (cframe[t].threw = "" /\ ~cframe[t].ok)
          /\ (pc[t] = "returned" /\ frame[t].enumThrew)
                => (frame[t].threw = "" /\ ~frame[t].result)
    /\ (ret.op \in {"refreshWindows", "focusWindowByHandle", "validateHandle",
                    "validateHandleWithTimeout"} /\ ret.failed)
          => (ret.threw = "" /\ ~ret.ok)

\* validateHandle has returned false after isWindowValid threw
C10_Witness ==
    /\ ret.op = "validateHandle"
    /\ ret.failed
    /\ ret.threw = "" /\ ~ret.ok

----------------------------------------------------------------------------
(* Validation timeout *)

\* C11: when wait_for times out, validateHandleWithTimeout returns false
\* without waiting for isWindowValid to finish: no caller of validateHandle,
\* validateHandleWithTimeout or focusWindowByHandle is held back by a platform
\* call that is still running after the timeout
C11_TimeoutDoesNotWait ==
    \A t \in SingleCaller : ~(pc[t] = "join" /\ frame[t].async \in {"timeout", "hang"})

----------------------------------------------------------------------------
(* Search and filter results *)

Range(sequence) == {sequence[i] : i \in DOMAIN sequence}
HandlesOf(windows) == {w.handle : w \in Range(windows)}

\* a searchWindows call is about to return the FilterResult of the filter
SearchReturns(t) ==
    pc[t] = "c_returned" /\ cframe[t].op = "searchWindows" /\ cframe[t].built = "filter"

\* C12: searchWindows("") returns exactly the visible windows of the window
\* list W its getAllWindows call read, each with its current visibility
C12_EmptySearchReturnsVisible ==
    \A t \in SingleCaller :
        (SearchReturns(t) /\ cframe[t].query = Keyword(""))
        => Range(cframe[t].result.windows) = {w \in Range(cframe[t].list) : w.isVisible}

\* C13: for a non-empty query q, the windows searchWindows(q) returns are
\* windows of the list W it read, each matches q, and no window of W that
\* matches q is left out
C13_SearchReturnsTheMatches ==
    \A t \in SingleCaller :
        (SearchReturns(t) /\ ~isEmpty(cframe[t].query))
        => /\ HandlesOf(cframe[t].result.windows) \subseteq HandlesOf(cframe[t].list)
           /\ \A w \in Range(cframe[t].result.windows) : matches(cframe[t].query, w)
           /\ \A w \in Range(cframe[t].list) :
                 matches(cframe[t].query, w)
                 => w.handle \in HandlesOf(cframe[t].result.windows)

\* C14 as stated: for every query with a non-empty workspaceFilter, every
\* window the filter returns has that workspaceId, and matches rejects every
\* window of another workspace
C14_WorkspaceFilterAlwaysApplies ==
    \A t \in SingleCaller :
        (SearchReturns(t) /\ cframe[t].query.workspaceFilter # "")
        => /\ \A w \in Range(cframe[t].result.windows) :
                 w.workspaceId = cframe[t].query.workspaceFilter
           /\ \A w \in Range(cframe[t].list) :
                 w.workspaceId # cframe[t].query.workspaceFilter
                 => ~matches(cframe[t].query, w)

\* C14: for every query with a non-empty term and a non-empty workspaceFilter,
\* every window the filter returns has that workspaceId, and matches rejects
\* every window of another workspace, whatever its title and owner
C14_WorkspaceFilterWithTerm ==
    \A t \in SingleCaller :
        (SearchReturns(t) /\ cframe[t].query.workspaceFilter # ""
            /\ ~isEmpty(cframe[t].query))
        => /\ \A w \in Range(cframe[t].result.windows) :
                 w.workspaceId = cframe[t].query.workspaceFilter
           /\ \A w \in Range(cframe[t].list) :
                 w.workspaceId # cframe[t].query.workspaceFilter
                 => ~matches(cframe[t].query, w)

\* a search restricted to ws2 returns a window of ws2 while a window of ws1
\* matches the term
C14_Witness ==
    \E t \in SingleCaller :
        /\ SearchReturns(t)
        /\ cframe[t].query.workspaceFilter = "ws2"
        /\ ~isEmpty(cframe[t].query)
        /\ cframe[t].result.windows # <<>>
        /\ \E w \in Range(cframe[t].list) :
              /\ w.workspaceId = "ws1"
              /\ matches(OnWorkspace(cframe[t].query, ""), w)

\* the operations that build a FilterResult from the windows they filtered
FilterOperations == {"filter", "filterWithWorkspaces", "filterVisible", "getEmptyResult"}

\* C15 as stated: every FilterResult that is constructed has
\* filteredCount == windows.size() and filteredCount <= totalCount
C15_EveryResultIsValid ==
    \A t \in SingleCaller :
        (pc[t] = "c_returned" /\ cframe[t].built # "")
        => /\ cframe[t].result.filteredCount = Len(cframe[t].result.windows)
           /\ cframe[t].result.filteredCount <= cframe[t].result.totalCount

\* C15: every FilterResult built by filter, filterWithWorkspaces, filterVisible
\* or getEmptyResult has filteredCount == windows.size() and
\* filteredCount <= totalCount; one built by a constructor that takes the
\* window list has filteredCount == windows.size()
C15_BuiltResultsAreValid ==
    \A t \in SingleCaller :
        (pc[t] = "c_returned" /\ cframe[t].built # "")
        => /\ cframe[t].built \in FilterOperations \cup {"FilterResult"}
              => cframe[t].result.filteredCount = Len(cframe[t].result.windows)
           /\ cframe[t].built \in FilterOperations
              => cframe[t].result.filteredCount <= cframe[t].result.totalCount

\* the filter returns some, not all, of the windows it was given
C15_Witness ==
    \E t \in SingleCaller :
        /\ SearchReturns(t)
        /\ cframe[t].result.filteredCount > 0
        /\ cframe[t].result.filteredCount < cframe[t].result.totalCount

----------------------------------------------------------------------------
(* Focus: workspace switch not allowed, rejected calls *)

\* C16: a focusWindowByHandle(handle, false) call whose handle validated and
\* whose window was reported off the current workspace returns false and has
\* appended to the focus history a FAILED operation whose error message says
\* that a workspace switch is required but not allowed
C16_SwitchNotAllowedFails ==
    \A t \in SingleCaller :
        (/\ pc[t] = "returned"
         /\ frame[t].entry = "focusWindowByHandle"
         /\ frame[t].windowInfo # Nullopt
         /\ ~frame[t].onCurrent
         /\ ~frame[t].allow)
        => /\ ~frame[t].result
           /\ Len(frame[t].appended) = 1
           /\ Len(focusHistory) > 0
           /\ focusHistory[Len(focusHistory)] = frame[t].appended[1]
           /\ frame[t].appended[1].status = "FAILED"
           /\ frame[t].appended[1].errorMessage
                  = "Window requires workspace switch but not allowed"

\* a call with allowWorkspaceSwitch false has returned after getWindowInfo
\* reported the window on another workspace
C16_Witness ==
    /\ pc[1] = "returned"
    /\ frame[1].enumCalls = <<"isWindowValid", "getWindowInfo">>
    /\ frame[1].windowInfo = Some(WindowOnOther)
    /\ ~frame[1].allow
    /\ ~frame[1].result

\* getFocusHistory() and getLastFocusOperation()
getFocusHistory == focusHistory
getLastFocusOperation ==
    IF focusHistory = <<>> THEN <<>> ELSE <<focusHistory[Len(focusHistory)]>>

\* caller t is inside a focusWindowByHandle call that the rate limiter rejected
InRejectedCall(t) ==
    pc[t] # "idle" /\ frame[t].entry = "focusWindowByHandle" /\ ~frame[t].accepted

\* C17: a focusWindowByHandle call rejected by the rate limiter returns false,
\* and no step of it changes what getFocusHistory and getLastFocusOperation
\* return
C17_RejectedLeavesHistory ==
    [][\A t \in SingleCaller :
          (InRejectedCall(t) \/ InRejectedCall(t)')
          => /\ getFocusHistory' = getFocusHistory
             /\ getLastFocusOperation' = getLastFocusOperation
             /\ (pc'[t] = "returned" => ~frame'[t].result)]_vars

\* a call has been rejected while the history holds the ten operations of the
\* calls accepted before it
C17_Witness ==
    /\ pc[1] = "returned"
    /\ InRejectedCall(1)
    /\ ~frame[1].result
    /\ Len(focusHistory) = MAX_FOCUS_REQUESTS_PER_SECOND

----------------------------------------------------------------------------
(* Error recovery *)

----------------------------------------------------------------------------
(* Workspaces *)

\* C19: every non-empty list getAllWorkspaces returns has exactly one
\* workspace with isCurrent set; when the Enumerator reports workspaces
\* unsupported the list is the single default workspace, marked current, and
\* enumerateWorkspaces is not called
C19_ExactlyOneCurrent ==
    \A t \in SingleCaller :
        (pc[t] = "c_returned" /\ cframe[t].op = "getAllWorkspaces" /\ cframe[t].threw = "")
        => /\ cframe[t].list # <<>>
              => Cardinality({i \in DOMAIN cframe[t].list : cframe[t].list[i].isCurrent}) = 1
           /\ ~workspaceSupported
              => /\ cframe[t].list = DefaultWorkspaces
                 /\ DefaultWorkspaces[1].isCurrent
                 /\ ~cframe[t].enumerated

-----------------------------------------------------------------------------
(* Wire record *)

\* C20: for every valid window, the record a consumer reads from the text of
\* toJson is a JSON object that has every legacy field (handle, title, x, y,
\* width, height, isVisible, processId, ownerName) with its legacy type, and
\* has the added workspace and state fields
C20_LegacyFieldsInRecord ==
    \A t \in SingleCaller :
        (pc[t] = "c_returned" /\ cframe[t].op = "toJson" /\ isValid(cframe[t].window))
        => LET record == ReadRecord(cframe[t].json)
           IN /\ record.ok
              /\ \A field \in DOMAIN getLegacyWindowInfoSchema :
                    <<<<field>>, getLegacyWindowInfoSchema[field]>> \in record.fields
              /\ \A field \in AddedFields : \E pair \in record.fields : pair[1] = <<field>>

-----------------------------------------------------------------------------
(* Focus: life of an operation *)

\* C21: while a focusWindowByHandle call runs, the status of its operation
\* changes only forward along PENDING, VALIDATING, SWITCHING_WORKSPACE,
\* FOCUSING, terminal (so SWITCHING_WORKSPACE never follows FOCUSING), and
\* never changes once it is COMPLETED, FAILED or CANCELLED
C21_StatusMovesForward ==
    [][\A t \in SingleCaller :
          (pc'[t] # "idle" /\ frame'[t].op.status # frame[t].op.status)
          => /\ frame[t].op.status \notin TerminalStatuses
             /\ StatusRank(frame'[t].op.status) > StatusRank(frame[t].op.status)]_vars

-----------------------------------------------------------------------------
(* Caches: locks and the Enumerator *)

\* C22: no cache lock is held while a call into the Enumerator is in
\* progress: a caller inside enumerateWindows does not hold the window cache
\* lock, one inside enumerateWorkspaces does not hold the workspace cache
\* lock, so a concurrent invalidateCache, or a getAllWindows that found the
\* cache valid, finds the lock free
C22_NoLockAcrossEnumeration ==
    \A t \in Callers :
        /\ pc[t] = "u_enum"
           => /\ cacheMutex # t
              /\ \A u \in Callers \ {t} : pc[u] \in {"idle", "g_hit"} => cacheMutex = 0
        /\ pc[t] = "wu_enum" => workspaceCacheMutex # t

-----------------------------------------------------------------------------
(* Focus across workspaces *)

\* the positions in the Enumerator calls of a focusWindowByHandle call at
\* which the named methods were called
CallsOf(t, names) == {i \in DOMAIN frame[t].enumCalls : frame[t].enumCalls[i] \in names}

\* C23: a focusWindowByHandle call that attempted a workspace switch
\* (switchToWorkspace was called: it returned true, returned false, or threw)
\* has called focusWindow exactly once, after the switch attempt, and
\* returns what that focusWindow call returned
C23_FocusAfterSwitchAttempt ==
    \A t \in SingleCaller :
        (pc[t] = "returned" /\ frame[t].entry = "focusWindowByHandle"
            /\ CallsOf(t, {"switchToWorkspace", "switchToWorkspace:true"}) # {})
        => /\ Cardinality(CallsOf(t, {"focusWindow"})) = 1
           /\ \A i \in CallsOf(t, {"switchToWorkspace", "switchToWorkspace:true"}),
                 j \in CallsOf(t, {"focusWindow"}) : i < j
           /\ frame[t].focused \in {"true", "false"}
              => frame[t].result = (frame[t].focused = "true")

-----------------------------------------------------------------------------
(* Rate limiter: the sliding log *)

\* C24: for a single caller, a focusWindowByHandle call at time t is accepted
\* exactly when fewer than 10 pushes of recordFocusRequest were made at times
\* in [t - 1s, t]; a call that has returned made a push exactly when it was
\* accepted, whether or not it failed afterwards
C24_AcceptedIffUnderTen ==
    \A t \in SingleCaller :
        (pc[t] # "idle" /\ frame[t].entry = "focusWindowByHandle")
        => /\ frame[t].accepted <=> frame[t].recent < MAX_FOCUS_REQUESTS_PER_SECOND
           /\ pc[t] = "returned" => (frame[t].recorded <=> frame[t].accepted)

\* acceptance has resumed: after ten recorded calls, a call made when all of
\* them were more than a second old was accepted, failed at validation, and
\* was recorded as the eleventh
C24_Witness ==
    /\ pc[1] = "returned"
    /\ frame[1].accepted
    /\ frame[1].recent = 0
    /\ frame[1].op.status = "FAILED"
    /\ frame[1].recorded
    /\ Len(recordTimes) = MAX_FOCUS_REQUESTS_PER_SECOND + 1

-----------------------------------------------------------------------------
(* Focus history *)

\* the last n elements of a sequence, all of it when it is shorter
Last(sequence, n) ==
    IF Len(sequence) <= n THEN sequence
    ELSE SubSeq(sequence, Len(sequence) - n + 1, Len(sequence))

\* C25: the focus history holds at most MAX_FOCUS_HISTORY_SIZE operations and
\* is exactly the most recent of the operations appended since it was last
\* empty, in append order; getLastFocusOperation returns the operation
\* appended last, or nothing when the history is empty
C25_HistoryIsRecentAppends ==
    /\ Len(getFocusHistory) <= MAX_FOCUS_HISTORY_SIZE
    /\ getFocusHistory = Last(appendLog, MAX_FOCUS_HISTORY_SIZE)
    /\ getLastFocusOperation =
          (IF appendLog = <<>> THEN Nullopt ELSE Some(appendLog[Len(appendLog)]))

\* a full history has evicted its two oldest operations for two new ones made
\* at different times
C25_Witness ==
    /\ Len(appendLog) = MAX_FOCUS_HISTORY_SIZE + 2
    /\ Len(focusHistory) = MAX_FOCUS_HISTORY_SIZE
    /\ focusHistory[1] = appendLog[3]
    /\ focusHistory[Len(focusHistory)].request.timestamp
          > focusHistory[Len(focusHistory) - 1].request.timestamp
    /\ focusHistory[Len(focusHistory) - 1].request.timestamp >= 0

-----------------------------------------------------------------------------
(* Focus: the workspaceSwitched flag *)

\* C26: an operation a focusWindowByHandle call has recorded has
\* workspaceSwitched set only if, during the call, switchToWorkspace was
\* called and returned true
C26_SwitchedOnlyAfterSwitch ==
    \A t \in SingleCaller :
        \A i \in DOMAIN frame[t].appended :
            frame[t].appended[i].workspaceSwitched
            => CallsOf(t, {"switchToWorkspace:true"}) # {}

-----------------------------------------------------------------------------
(* Focus: request ids *)

\* C27: any two operations in the focus history have different request ids
C27_DistinctRequestIds ==
    \A i, j \in DOMAIN focusHistory :
        i # j => focusHistory[i].request.requestId # focusHistory[j].request.requestId

-----------------------------------------------------------------------------
(* Focus: validation and lookup come first *)

\* C28: in an accepted focusWindowByHandle call, switchToWorkspace and
\* focusWindow are called only when isWindowValid has returned true within
\* the timeout and getWindowInfo has returned a window; a call that returns
\* after an empty handle, a validation that failed or timed out, or a window
\* that was not found has called neither and has recorded one FAILED
\* operation
C28_FocusOnlyAfterValidation ==
    \A t \in SingleCaller :
        (pc[t] # "idle" /\ frame[t].entry = "focusWindowByHandle" /\ frame[t].accepted)
        => LET acted == CallsOf(t, {"switchToWorkspace", "switchToWorkspace:true",
                                    "focusWindow"})
           IN /\ acted # {}
                 => /\ frame[t].validated = "true"
                    /\ frame[t].windowInfo # Nullopt
                    /\ \A j \in acted :
                          /\ \E i \in CallsOf(t, {"isWindowValid"}) : i < j
                          /\ \E i \in CallsOf(t, {"getWindowInfo"}) : i < j
              /\ (pc[t] = "returned"
                    /\ (frame[t].validated # "true" \/ frame[t].windowInfo = Nullopt))
                 => /\ acted = {}
                    /\ ~frame[t].result
                    /\ Len(frame[t].appended) = 1
                    /\ frame[t].appended[1].status = "FAILED"

\* a call whose validation timed out has returned false
C28_Witness ==
    /\ pc[1] = "returned"
    /\ frame[1].accepted
    /\ frame[1].validated = "timeout"
    /\ frame[1].enumCalls = <<"isWindowValid">>
    /\ frame[1].appended # <<>>
    /\ frame[1].appended[1].errorMessage = "Invalid window handle"

-----------------------------------------------------------------------------
(* Filter: result cache *)

\* C29: what filter(windows, query) returns with result caching enabled is
\* what it returns with caching disabled, a result performFilter computes
\* from these windows and this query: the same windows, totalCount and
\* filteredCount
C29_CachedEqualsUncached ==
    \A t \in SingleCaller :
        SearchReturns(t)
        => \E result \in performFilter(cframe[t].list, cframe[t].query) :
              /\ cframe[t].result.windows = result.windows
              /\ cframe[t].result.totalCount = result.totalCount
              /\ cframe[t].result.filteredCount = result.filteredCount

\* C30: no Facade operation holds more than one of the four locks at a time:
\* a caller between operations holds none, the lock a caller is about to take
\* or is keeping is the only one it has, and the caller a waiting caller waits
\* for is never waiting itself, so no interleaving of calls ends in a cycle of
\* waiting callers
C30_AtMostOneLock ==
    \A t \in Callers :
        /\ pc[t] = "idle" => LocksHeld(t) = {}
        /\ Cardinality(LocksHeld(t) \cup LockTaken(pc[t])) <= 1
        /\ \A u \in WaitsFor(t) : WaitsFor(u) = {}

\* a caller inside refreshAllCaches waits for the workspace lock, which another
\* caller holds across its enumeration, after a focus request went through
C30_Witness ==
    \E t, u \in Callers :
        /\ t # u
        /\ cframe[t].op = "refreshAllCaches"
        /\ pc[t] = "ra_invw"
        /\ workspaceCacheMutex = u
        /\ pc[u] = "wu_enum"
        /\ Len(focusHistory) > 0

====
